---------------------------- MODULE Spec2Model ----------------------------
(***************************************************************************)
(* Model of the scoring and record-keeping logic of the sign-language      *)
(* education API: the Assignment, Media and Practice documents, the        *)
(* methods of their schemas and the request handlers that call them.       *)
(*                                                                         *)
(* Strings are sequences of one-character strings.  An optional field of   *)
(* a document (feedback, gradedAt, ...) is a set: {} when the field is     *)
(* undefined and {v} when it holds v.  Math.round(n / d) is computed on    *)
(* the exact quotient; within the bounds used here the IEEE-754 double     *)
(* the program computes rounds to the same integer.                        *)
(***************************************************************************)
EXTENDS Integers, Sequences, FiniteSets, TLC

VARIABLES
    assignment,   \* the stored Assignment document
    media,        \* the stored Media document (its views list)
    practice,     \* a Practice document
    practices,    \* the Practice collection, in the order of creation
    classes,      \* the Class collection, in the order of creation
    users,        \* per student, studentInfo.classIds of the User document
    files,        \* the paths of the files stored under uploads/
    uploads,      \* the Media collection, in the order of creation
    report,       \* inputs and result of calculateOverallProgressScore
    reqs,         \* requests in flight: position, arguments, loaded copy
    now,          \* the clock read by new Date()
    submitted,    \* per student, how often submitAssignment has succeeded
                  \* (0, 1, or 2 for twice or more)
    last          \* the last call made and what it answered

vars == <<assignment, media, practice, practices, classes, users, files, uploads,
          report, reqs, now, submitted, last>>

----------------------------------------------------------------------------
(* Bounds of the model *)

MaxNow == 1
MaxStrLen == 2
MaxAnswers == 2
MaxQuestions == 2
MaxContentLen == 3
MaxKeystrokes == 3
MaxStats == 2

----------------------------------------------------------------------------
(* Users and the class the assignment and the media belong to *)

Students == {"s1", "s2", "s3"}
Teachers == {"t1", "t2"}

\* classData.students and classData.teacherId of the one class modelled
ClassStudents == {"s1", "s2"}
ClassTeacher == "t1"

----------------------------------------------------------------------------
(* Strings *)

Space == " "
LowerLetters == {"a", "b", "c", "d", "e", "f"}
Digits == {"1"}

\* String.prototype.toLowerCase on one character
LowerChar(c) ==
    CASE c = "A" -> "a"
      [] c = "B" -> "b"
      [] OTHER -> c

ToLowerCase(s) == [i \in 1..Len(s) |-> LowerChar(s[i])]

RECURSIVE TrimStart(_)
TrimStart(s) ==
    IF Len(s) > 0 /\ Head(s) = Space THEN TrimStart(Tail(s)) ELSE s

RECURSIVE TrimEnd(_)
TrimEnd(s) ==
    IF Len(s) > 0 /\ s[Len(s)] = Space
    THEN TrimEnd(SubSeq(s, 1, Len(s) - 1))
    ELSE s

\* String.prototype.trim
Trim(s) == TrimEnd(TrimStart(s))

\* All strings over alphabet A of length at most n
StringsUpTo(A, n) == UNION {[1..k -> A] : k \in 0..n}

----------------------------------------------------------------------------
(* Arithmetic *)

\* Math.round(n / d) for d > 0: the nearest integer, halves rounded up
MathRound(n, d) == (2 * n + d) \div (2 * d)

Max(a, b) == IF a >= b THEN a ELSE b
Min(a, b) == IF a <= b THEN a ELSE b

RECURSIVE Sum(_)
\* Array.prototype.reduce((sum, x) => sum + x, 0) over a list of numbers
Sum(s) ==
    IF Len(s) = 0 THEN 0 ELSE Head(s) + Sum(Tail(s))

----------------------------------------------------------------------------
(* JavaScript numbers where the rounding of the double matters: a double   *)
(* is bits * 2^exp, bits being the binary digits of its significand, most  *)
(* significant first and at most MantissaBits long (<<>> for zero).  Every *)
(* operation computes the exact result and rounds it to the nearest double, *)
(* ties to the even significand, as IEEE 754 does.  Long numbers are added, *)
(* multiplied and divided in limbs of LimbBits binary digits.              *)

MantissaBits == 53
LimbBits == 15
LimbBase == 2 ^ LimbBits

Zeros(n) == [i \in 1..n |-> 0]

\* The binary digits of a natural number, most significant first
RECURSIVE NatBits(_)
NatBits(n) == IF n = 0 THEN <<>> ELSE Append(NatBits(n \div 2), n % 2)

\* The natural number with these binary digits
RECURSIVE BitsNat(_)
BitsNat(bits) ==
    IF bits = <<>> THEN 0
    ELSE 2 * BitsNat(SubSeq(bits, 1, Len(bits) - 1)) + bits[Len(bits)]

\* The digits without leading zeros
StripZeros(bits) ==
    LET ones == {i \in 1..Len(bits) : bits[i] = 1}
    IN  IF ones = {} THEN <<>>
        ELSE SubSeq(bits, CHOOSE i \in ones : \A j \in ones : i <= j, Len(bits))

\* The digits grouped into limbs, most significant first
ToLimbs(bits) ==
    LET count == (Len(bits) + LimbBits - 1) \div LimbBits
        padded == Zeros(count * LimbBits - Len(bits)) \o bits
    IN  [i \in 1..count |->
            BitsNat(SubSeq(padded, (i - 1) * LimbBits + 1, i * LimbBits))]

\* The digits of a number given in limbs
FromLimbs(limbs) ==
    [j \in 1..(LimbBits * Len(limbs)) |->
        (limbs[(j - 1) \div LimbBits + 1]
            \div (2 ^ (LimbBits - 1 - ((j - 1) % LimbBits)))) % 2]

\* a + b + carry on limbs given least significant first
RECURSIVE AddLimbs(_, _, _)
AddLimbs(a, b, carry) ==
    IF a = <<>> /\ b = <<>>
    THEN (IF carry > 0 THEN <<carry>> ELSE <<>>)
    ELSE LET x == IF a = <<>> THEN 0 ELSE Head(a)
             y == IF b = <<>> THEN 0 ELSE Head(b)
             t == x + y + carry
         IN  <<t % LimbBase>> \o AddLimbs(IF a = <<>> THEN a ELSE Tail(a),
                                          IF b = <<>> THEN b ELSE Tail(b),
                                          t \div LimbBase)

\* a * k + carry on limbs given least significant first, k a small number
RECURSIVE TimesLimbs(_, _, _)
TimesLimbs(a, k, carry) ==
    IF a = <<>>
    THEN (IF carry > 0 THEN <<carry>> ELSE <<>>)
    ELSE LET t == k * Head(a) + carry
         IN  <<t % LimbBase>> \o TimesLimbs(Tail(a), k, t \div LimbBase)

\* Long division of limbs, most significant first, by a small number d:
\* the limbs of the quotient and the remainder
RECURSIVE DivideLimbs(_, _, _)
DivideLimbs(a, d, rem) ==
    IF a = <<>>
    THEN [q |-> <<>>, r |-> rem]
    ELSE LET t == rem * LimbBase + Head(a)
             rest == DivideLimbs(Tail(a), d, t % d)
         IN  [q |-> <<t \div d>> \o rest.q, r |-> rest.r]

Reverse(s) == [i \in 1..Len(s) |-> s[Len(s) + 1 - i]]

\* The digits of bits + 1
Increment(bits) ==
    LET zeros == {i \in 1..Len(bits) : bits[i] = 0}
        last0 == CHOOSE i \in zeros : \A j \in zeros : j <= i
    IN  IF zeros = {} THEN <<1>> \o Zeros(Len(bits))
        ELSE [i \in 1..Len(bits) |->
                 IF i < last0 THEN bits[i] ELSE IF i = last0 THEN 1 ELSE 0]

\* The double nearest to bits * 2^exp (plus a fraction of the last digit
\* when sticky): round to nearest, ties to even
DoubleRound(bits, exp, sticky) ==
    LET b == StripZeros(bits)
        n == Len(b)
    IN  IF n <= MantissaBits
        THEN [bits |-> b, exp |-> exp]
        ELSE LET keep == SubSeq(b, 1, MantissaBits)
                 lower == \E i \in (MantissaBits + 2)..n : b[i] = 1
                 up == /\ b[MantissaBits + 1] = 1
                       /\ (sticky \/ lower \/ keep[MantissaBits] = 1)
                 inc == IF up THEN Increment(keep) ELSE keep
             IN  [bits |-> SubSeq(inc, 1, MantissaBits),
                  exp |-> exp + (n - MantissaBits) + (Len(inc) - MantissaBits)]

\* A natural number as a double
DoubleOf(n) == [bits |-> NatBits(n), exp |-> 0]

\* x / d for a small positive integer d
DoubleDivide(x, d) ==
    IF x.bits = <<>> THEN x
    ELSE LET qr == DivideLimbs(ToLimbs(x.bits \o Zeros(MantissaBits + 11)), d, 0)
         IN  DoubleRound(FromLimbs(qr.q), x.exp - (MantissaBits + 11), qr.r # 0)

\* x * k for a small positive integer k
DoubleTimes(x, k) ==
    IF x.bits = <<>> THEN x
    ELSE DoubleRound(FromLimbs(Reverse(TimesLimbs(Reverse(ToLimbs(x.bits)), k, 0))),
                     x.exp, FALSE)

\* x + y
DoublePlus(x, y) ==
    IF x.bits = <<>> THEN y
    ELSE IF y.bits = <<>> THEN x
    ELSE LET e == Min(x.exp, y.exp)
             a == ToLimbs(x.bits \o Zeros(x.exp - e))
             b == ToLimbs(y.bits \o Zeros(y.exp - e))
         IN  DoubleRound(FromLimbs(Reverse(AddLimbs(Reverse(a), Reverse(b), 0))),
                         e, FALSE)

\* Math.round(x) for x >= 0: floor(x + 0.5), computed exactly
DoubleMathRound(x) ==
    LET whole == Len(x.bits) + x.exp
    IN  IF x.bits = <<>> THEN 0
        ELSE IF x.exp >= 0 THEN BitsNat(x.bits \o Zeros(x.exp))
        ELSE IF whole < 0 THEN 0
        ELSE BitsNat(SubSeq(x.bits, 1, whole)) + x.bits[whole + 1]

----------------------------------------------------------------------------
(* Assignment documents *)

Question(id, correctAnswer, points, questionType) ==
    [id |-> id, correctAnswer |-> correctAnswer, points |-> points,
     questionType |-> questionType]

Answer(questionId, answer) == [questionId |-> questionId, answer |-> answer]

\* The document before any assignment is created
NoAssignment ==
    [exists |-> FALSE, questions |-> <<>>, totalPoints |-> 0,
     submissions |-> <<>>, dueDate |-> 0, allowLateSubmission |-> FALSE]

\* questions.reduce((total, question) => total + question.points, 0)
QuestionPoints(questions) ==
    Sum([i \in 1..Len(questions) |-> questions[i].points])

\* assignmentSchema.pre('save'): totalPoints follows the questions only when
\* the questions path is modified on the document being saved
PreSaveAssignment(doc, questionsModified) ==
    IF questionsModified
    THEN [doc EXCEPT !.totalPoints = QuestionPoints(doc.questions)]
    ELSE doc

\* this.questions.id(questionId): the question with that _id, as a set
QuestionById(questions, questionId) ==
    {questions[i] : i \in {j \in 1..Len(questions) : questions[j].id = questionId}}

\* Mutant: the comparison is case-sensitive
AnswerMatchesCase(answer, correctAnswer) ==
    \E text \in correctAnswer : Trim(answer) = Trim(text)

\* answer.answer.toLowerCase().trim() === question.correctAnswer.toLowerCase().trim()
\* for a question that has a correctAnswer
AnswerMatches(answer, correctAnswer) ==
    \E text \in correctAnswer : Trim(ToLowerCase(answer)) = Trim(ToLowerCase(text))

\* question.correctAnswer.toLowerCase() throws a TypeError when an answer
\* names a question stored without a correctAnswer (the schema does not
\* require one)
SubmitThrows(questions, answers) ==
    \E i \in 1..Len(answers) :
        \E q \in QuestionById(questions, answers[i].questionId) :
            q.correctAnswer = {}

\* The callback of answers.map in submitAssignment
ProcessAnswer(questions, answer) ==
    LET found == QuestionById(questions, answer.questionId)
        question == CHOOSE q \in found : TRUE
        correct == found # {} /\ AnswerMatches(answer.answer, question.correctAnswer)
    IN  [questionId |-> answer.questionId,
         answer |-> answer.answer,
         isCorrect |-> correct,
         pointsEarned |-> IF correct THEN question.points ELSE 0]

ProcessedAnswers(questions, answers) ==
    [i \in 1..Len(answers) |-> ProcessAnswer(questions, answers[i])]

\* score += question.points for every correct answer
EarnedScore(processed) ==
    Sum([i \in 1..Len(processed) |-> processed[i].pointsEarned])

\* Mutant: the percentage is computed without the totalPoints > 0 guard, and
\* the division by zero yields something that is not 0
PercentageUnguarded(score, totalPoints) ==
    IF totalPoints > 0 THEN MathRound(score * 100, totalPoints) ELSE 0 - 1

\* this.totalPoints > 0 ? Math.round((score / this.totalPoints) * 100) : 0
Percentage(score, totalPoints) ==
    IF totalPoints > 0 THEN MathRound(score * 100, totalPoints) ELSE 0

\* Mutant: the earlier submission of the student is not removed
WithoutStudentKeepsAll(submissions, studentId) == submissions

\* this.submissions.filter(submission => submission.studentId !== studentId)
WithoutStudent(submissions, studentId) ==
    SelectSeq(submissions, LAMBDA sub : sub.studentId # studentId)

\* Mutant: the new entry inherits the grade of the entry it replaces
NewSubmissionKeepsGrade(doc, studentId, answers) ==
    LET processed == ProcessedAnswers(doc.questions, answers)
        score == EarnedScore(processed)
        replaced == {i \in 1..Len(doc.submissions) :
                        doc.submissions[i].studentId = studentId}
    IN  [studentId |-> studentId,
         answers |-> processed,
         score |-> score,
         percentage |-> Percentage(score, doc.totalPoints),
         feedback |-> UNION {doc.submissions[i].feedback : i \in replaced},
         gradedAt |-> UNION {doc.submissions[i].gradedAt : i \in replaced},
         gradedBy |-> UNION {doc.submissions[i].gradedBy : i \in replaced}]

\* The entry pushed by submitAssignment
NewSubmission(doc, studentId, answers) ==
    LET processed == ProcessedAnswers(doc.questions, answers)
        score == EarnedScore(processed)
    IN  [studentId |-> studentId,
         answers |-> processed,
         score |-> score,
         percentage |-> Percentage(score, doc.totalPoints),
         feedback |-> {}, gradedAt |-> {}, gradedBy |-> {}]

\* assignmentSchema.methods.submitAssignment, up to its save()
SubmitAssignmentMethod(doc, studentId, answers) ==
    PreSaveAssignment(
        [doc EXCEPT !.submissions =
            Append(WithoutStudent(doc.submissions, studentId),
                   NewSubmission(doc, studentId, answers))],
        FALSE)

\* this.submissions.find(sub => sub.studentId === studentId): its index, 0 if none
FindSubmission(submissions, studentId) ==
    LET hits == {i \in 1..Len(submissions) : submissions[i].studentId = studentId}
    IN  IF hits = {} THEN 0 ELSE CHOOSE i \in hits : \A j \in hits : i <= j

\* Mutant: the percentage is not recomputed from the new score
GradedSubmissionStalePercentage(sub, totalPoints, score, feedback, gradedBy, date) ==
    [sub EXCEPT !.score = score,
                !.feedback = feedback,
                !.gradedAt = {date},
                !.gradedBy = {gradedBy}]

\* The assignments gradeAssignment makes to the submission it found
GradedSubmission(sub, totalPoints, score, feedback, gradedBy, date) ==
    [sub EXCEPT !.score = score,
                !.percentage = Percentage(score, totalPoints),
                !.feedback = feedback,
                !.gradedAt = {date},
                !.gradedBy = {gradedBy}]

\* Mutant: a missing submission is created instead of being reported
GradeAssignmentUpserts(doc, studentId, score, feedback, gradedBy, date) ==
    LET i == FindSubmission(doc.submissions, studentId)
        fresh == NewSubmission(doc, studentId, <<>>)
        subs == IF i = 0 THEN Append(doc.submissions, fresh) ELSE doc.submissions
        k == IF i = 0 THEN Len(subs) ELSE i
    IN  [thrown |-> FALSE,
         doc |-> [doc EXCEPT !.submissions =
                     [subs EXCEPT ![k] =
                         GradedSubmission(subs[k], doc.totalPoints,
                                          score, feedback, gradedBy, date)]]]

\* assignmentSchema.methods.gradeAssignment: the saved document, or the
\* document untouched when it throws 'Submission not found'
GradeAssignmentMethod(doc, studentId, score, feedback, gradedBy, date) ==
    LET i == FindSubmission(doc.submissions, studentId)
    IN  IF i = 0
        THEN [thrown |-> TRUE, doc |-> doc]
        ELSE [thrown |-> FALSE,
              doc |-> PreSaveAssignment(
                  [doc EXCEPT !.submissions[i] =
                      GradedSubmission(doc.submissions[i], doc.totalPoints,
                                       score, feedback, gradedBy, date)],
                  FALSE)]

\* assignmentSchema.virtual('averageScore')
AverageScore(doc) ==
    IF Len(doc.submissions) = 0
    THEN 0
    ELSE MathRound(Sum([i \in 1..Len(doc.submissions) |-> doc.submissions[i].score]),
                   Len(doc.submissions))

----------------------------------------------------------------------------
(* Media, Practice and report state outside the operations that use them *)

NoMedia == [exists |-> FALSE, views |-> <<>>]

\* The Practice collection without documents
NoPractices == <<>>

\* The Class collection holding the one class of ClassTeacher, with its
\* generated classCode
\* maxStudents of a class created without one: maxStudents || 30
DefaultMaxStudents == 30

InitialClasses ==
    <<[teacherId |-> ClassTeacher, students |-> ClassStudents, classCode |-> {"A"},
       maxStudents |-> DefaultMaxStudents, isActive |-> TRUE]>>

\* The place of a class that Class.findByIdAndDelete has removed: the ids of
\* the other classes stay what they were and no lookup finds it
DeletedClass ==
    [teacherId |-> "", students |-> {}, classCode |-> {}, maxStudents |-> 0,
     isActive |-> FALSE]

\* studentInfo.classIds of the students, as the enrolments of the classes
\* have left them: the ids of the classes that list the student
EnrolledIn(docs) ==
    [studentId \in Students \cup UNION {docs[i].students : i \in 1..Len(docs)} |->
        {i \in 1..Len(docs) : studentId \in docs[i].students}]

\* No file under uploads/ and no Media document
NoFiles == {}
NoUploads == <<>>

NoPractice == [type |-> "none"]
NoReport == [computed |-> FALSE]
NoRequests == <<>>

\* What a handler was asked and what it answered: the call, who made it
\* (req.user), the student it was about, the request body where a property
\* reads it ({} otherwise), the HTTP status and message
Response(op, user, status, message, studentId, body) ==
    [op |-> op, user |-> user, status |-> status, message |-> message,
     studentId |-> studentId, body |-> body]

NoResponse ==
    [op |-> "none", user |-> "", status |-> 0, message |-> "",
     studentId |-> "", body |-> {}]

NoneSubmitted == [s \in Students |-> 0]

----------------------------------------------------------------------------
(* Request payloads *)

\* req.body.questions of createAssignment and updateAssignment; a question's
\* id is the _id the stored subdocument gets, correctAnswer and points are
\* {} when left out
RequestQuestions ==
    { <<Question(1, {<<"a">>}, {}, "short_answer"),
        Question(4, {}, {}, "long_answer")>>,
      <<Question(2, {<<"a">>}, {2}, "multiple_choice"),
        Question(3, {<<Space, "B">>}, {1}, "true_false")>> }

\* req.body.answers of submitAssignment
RequestAnswers ==
    { <<>>,
      <<Answer(1, <<Space>>)>>,
      <<Answer(1, <<"A">>)>>,
      <<Answer(4, <<"a">>)>>,
      <<Answer(2, <<"b">>), Answer(3, <<"b", Space>>)>> }

\* req.body and caller of gradeAssignment: the class teacher grading a student of the
\* class, regrading them, grading a student who is not in the class, and a
\* teacher of another class trying to
GradeCalls ==
    { [user |-> ClassTeacher, studentId |-> "s1",
       grade |-> [score |-> 3, feedback |-> {"well done"}]],
      [user |-> ClassTeacher, studentId |-> "s1",
       grade |-> [score |-> 0, feedback |-> {}]],
      [user |-> ClassTeacher, studentId |-> "s2",
       grade |-> [score |-> 0, feedback |-> {}]],
      [user |-> ClassTeacher, studentId |-> "s3",
       grade |-> [score |-> 3, feedback |-> {"well done"}]],
      [user |-> "t2", studentId |-> "s1",
       grade |-> [score |-> 3, feedback |-> {"well done"}]] }

\* req.body.dueDate: the assignment is due at the start of the run
DueDates == {0}

----------------------------------------------------------------------------
(* Assignment handlers *)

\* questions.map((q, index) => ({...q, order: index + 1, points: q.points || 1}))
ProcessedQuestions(questions) ==
    [i \in 1..Len(questions) |->
        [questions[i] EXCEPT !.points =
            IF questions[i].points = {} THEN 1
            ELSE CHOOSE n \in questions[i].points : TRUE]]

\* submitAssignmentValidation: at least one answer, each non-empty once trimmed
ValidAnswers(answers) ==
    /\ Len(answers) >= 1
    /\ \A i \in 1..Len(answers) : Len(Trim(answers[i].answer)) >= 1

\* body('answers.*.answer').trim() rewrites the request body
SanitizedAnswers(answers) ==
    [i \in 1..Len(answers) |-> [answers[i] EXCEPT !.answer = Trim(@)]]

\* controllers: createAssignment
CreateAssignment(user, questions, dueDate, allowLate) ==
    /\ ~assignment.exists
    /\ LET status ==
               CASE Len(questions) = 0 -> 400
                 [] user # ClassTeacher -> 403
                 [] OTHER -> 201
           doc == [exists |-> TRUE,
                   questions |-> ProcessedQuestions(questions),
                   totalPoints |-> 0,
                   submissions |-> <<>>,
                   dueDate |-> dueDate,
                   allowLateSubmission |-> allowLate]
       IN  /\ assignment' = IF status = 201 THEN PreSaveAssignment(doc, TRUE)
                            ELSE assignment
           /\ last' = Response("createAssignment", user, status, "", "", {})
    /\ UNCHANGED <<media, practice, practices, classes, users, files, uploads, report,
                   reqs, now, submitted>>

\* Assignment.findByIdAndUpdate(assignmentId, updateData): the fields of
\* updateData are written to the stored document; no save() takes place
FindByIdAndUpdate(doc, questions, dueDate, allowLate) ==
    [doc EXCEPT
        !.questions = IF questions = {} THEN @
                      ELSE ProcessedQuestions(CHOOSE q \in questions : TRUE),
        !.dueDate = IF dueDate = {} THEN @ ELSE CHOOSE d \in dueDate : TRUE,
        !.allowLateSubmission =
            IF allowLate = {} THEN @ ELSE CHOOSE a \in allowLate : TRUE]

\* controllers: updateAssignment; each argument is {} when the body omits it
UpdateAssignment(user, questions, dueDate, allowLate) ==
    /\ LET status ==
               CASE ~assignment.exists -> 404
                 [] user # ClassTeacher -> 403
                 [] OTHER -> 200
       IN  /\ assignment' =
                  IF status = 200
                  THEN FindByIdAndUpdate(assignment, questions, dueDate, allowLate)
                  ELSE assignment
           /\ last' = Response("updateAssignment", user, status, "", "", {})
    /\ UNCHANGED <<media, practice, practices, classes, users, files, uploads, report,
                   reqs, now, submitted>>

\* Mutant: the due date is not looked at
SubmitStatusWithoutDeadline(doc, studentId, answers, date) ==
    CASE ~ValidAnswers(answers) -> 400
      [] ~doc.exists -> 404
      [] studentId \notin ClassStudents -> 403
      [] Len(answers) = 0 -> 400
      [] SubmitThrows(doc.questions, SanitizedAnswers(answers)) -> 500
      [] OTHER -> 200

\* The answer of submitAssignment to a request: doc is what
\* Assignment.findById returned, date is new Date(); an error thrown while
\* grading is caught and answered with 500
SubmitStatus(doc, studentId, answers, date) ==
    CASE ~ValidAnswers(answers) -> 400
      [] ~doc.exists -> 404
      [] studentId \notin ClassStudents -> 403
      [] date > doc.dueDate /\ ~doc.allowLateSubmission -> 400
      [] Len(answers) = 0 -> 400
      [] SubmitThrows(doc.questions, SanitizedAnswers(answers)) -> 500
      [] OTHER -> 200

\* controllers: submitAssignment, served without another request in between
SubmitAssignment(studentId, answers) ==
    /\ LET status == SubmitStatus(assignment, studentId, answers, now)
       IN  /\ assignment' =
                  IF status = 200
                  THEN SubmitAssignmentMethod(assignment, studentId,
                                              SanitizedAnswers(answers))
                  ELSE assignment
           /\ submitted' =
                  IF status = 200
                  THEN [submitted EXCEPT ![studentId] = Min(@ + 1, 2)]
                  ELSE submitted
           /\ last' = Response("submitAssignment", studentId, status, "", studentId,
                               {answers})
    /\ UNCHANGED <<media, practice, practices, classes, users, files, uploads, report,
                   reqs, now>>

\* controllers: gradeAssignment
GradeAssignment(user, studentId, grade) ==
    /\ LET result == GradeAssignmentMethod(assignment, studentId, grade.score,
                                           grade.feedback, user, now)
           status ==
               CASE ~assignment.exists -> 404
                 [] user # ClassTeacher -> 403
                 [] result.thrown -> 404
                 [] OTHER -> 200
           message ==
               CASE ~assignment.exists -> "Assignment not found"
                 [] user # ClassTeacher -> "Access denied"
                 [] result.thrown -> "Student submission not found"
                 [] OTHER -> "Assignment graded successfully"
       IN  /\ assignment' = IF status = 200 THEN result.doc ELSE assignment
           /\ last' = Response("gradeAssignment", user, status, message, studentId, {grade})
    /\ UNCHANGED <<media, practice, practices, classes, users, files, uploads, report,
                   reqs, now, submitted>>

\* Time passes between requests
Tick ==
    /\ now < MaxNow
    /\ now' = now + 1
    /\ UNCHANGED <<assignment, media, practice, practices, classes, users, files,
                   uploads, report, reqs, submitted, last>>

----------------------------------------------------------------------------
(* Requests served one after the other on one assignment *)

Init ==
    /\ assignment = NoAssignment
    /\ media = NoMedia
    /\ practice = NoPractice
    /\ practices = NoPractices
    /\ classes = InitialClasses
    /\ users = EnrolledIn(InitialClasses)
    /\ files = NoFiles
    /\ uploads = NoUploads
    /\ report = NoReport
    /\ reqs = NoRequests
    /\ now = 0
    /\ submitted = NoneSubmitted
    /\ last = NoResponse

CreateRequest ==
    \E user \in Teachers, questions \in RequestQuestions \cup {<<>>},
       dueDate \in DueDates, allowLate \in BOOLEAN :
       CreateAssignment(user, questions, dueDate, allowLate)

SubmitRequest ==
    \E studentId \in Students, answers \in RequestAnswers :
       SubmitAssignment(studentId, answers)

GradeRequest ==
    \E call \in GradeCalls :
       GradeAssignment(call.user, call.studentId, call.grade)

UpdateRequest ==
    \E user \in Teachers,
       questions \in {{}} \cup {{q} : q \in RequestQuestions},
       allowLate \in {{}, {TRUE}, {FALSE}} :
       UpdateAssignment(user, questions, {}, allowLate)

Next ==
    \/ CreateRequest
    \/ SubmitRequest
    \/ GradeRequest
    \/ Tick

Spec == Init /\ [][Next]_vars

----------------------------------------------------------------------------
(* The same, with the teacher also editing the assignment *)

NextUpdate ==
    \/ CreateRequest
    \/ UpdateRequest
    \/ SubmitRequest
    \/ Tick

SpecUpdate == Init /\ [][NextUpdate]_vars

----------------------------------------------------------------------------
(* Properties of submitAssignment and gradeAssignment *)

\* The entries of one student in a submissions list, in order
EntriesOf(submissions, studentId) ==
    SelectSeq(submissions, LAMBDA sub : sub.studentId = studentId)

\* The step is a request of the given kind (requests never move the clock)
IsRequest(op) == now' = now /\ last'.op = op

\* p is the integer nearest to 100 * score / totalPoints, halves upwards
IsNearestPercent(p, score, totalPoints) ==
    /\ 2 * p * totalPoints <= 200 * score + totalPoints
    /\ 200 * score + totalPoints < 2 * (p + 1) * totalPoints

OneEntryPerStudent ==
    \A s \in Students :
        Len(EntriesOf(assignment.submissions, s)) = IF submitted[s] > 0 THEN 1 ELSE 0

ResubmissionReplaces ==
    (IsRequest("submitAssignment") /\ last'.status = 200) =>
        /\ Len(EntriesOf(assignment'.submissions, last'.studentId)) = 1
        /\ Len(assignment'.submissions) =
               Len(assignment.submissions) + 1
               - Len(EntriesOf(assignment.submissions, last'.studentId))
        /\ \A s \in Students \ {last'.studentId} :
               EntriesOf(assignment'.submissions, s) =
               EntriesOf(assignment.submissions, s)

\* C1: through any series of submitAssignment and gradeAssignment calls the
\* submissions list holds exactly one entry for each student who has
\* submitted and none for the others, and a successful submitAssignment
\* leaves one entry for its student and every other student's entry as it was.
C1_OneSubmissionPerStudent ==
    []OneEntryPerStudent /\ [][ResubmissionReplaces]_vars

\* A student has resubmitted while another student's graded submission is kept
C1_Witness ==
    /\ last.op = "submitAssignment" /\ last.status = 200
    /\ submitted[last.studentId] = 2
    /\ Len(assignment.submissions) = 2
    /\ assignment.submissions[1].gradedAt # {}

\* C4: gradeAssignment by the class teacher for a student who has no
\* submission is answered 404 'Student submission not found' and leaves the
\* submissions list as it was.
C4_GradeWithoutSubmissionIsNotFound ==
    [][(/\ IsRequest("gradeAssignment")
        /\ assignment.exists
        /\ last'.user = ClassTeacher
        /\ EntriesOf(assignment.submissions, last'.studentId) = <<>>)
       => (/\ last'.status = 404
           /\ last'.message = "Student submission not found"
           /\ assignment'.submissions = assignment.submissions)]_vars

\* The teacher graded a student without a submission while another had one
C4_Witness ==
    /\ last.op = "gradeAssignment"
    /\ last.user = ClassTeacher
    /\ last.message = "Student submission not found"
    /\ Len(assignment.submissions) = 1
    /\ EntriesOf(assignment.submissions, last.studentId) = <<>>

GradeOverwrites ==
    (IsRequest("gradeAssignment") /\ last'.status = 200) =>
        LET given == CHOOSE g \in last'.body : TRUE
            old == EntriesOf(assignment.submissions, last'.studentId)[1]
            new == EntriesOf(assignment'.submissions, last'.studentId)[1]
        IN  /\ new.score = given.score
            /\ new.feedback = given.feedback
            /\ new.gradedAt = {now}
            /\ new.gradedBy = {last'.user}
            /\ IF assignment.totalPoints = 0
               THEN new.percentage = 0
               ELSE IsNearestPercent(new.percentage, given.score,
                                     assignment.totalPoints)
            /\ new.answers = old.answers
            /\ new.studentId = old.studentId
            /\ Len(assignment'.submissions) = Len(assignment.submissions)
            /\ \A i \in 1..Len(assignment.submissions) :
                   assignment.submissions[i].studentId # last'.studentId =>
                       assignment'.submissions[i] = assignment.submissions[i]

\* C5: gradeAssignment for a student with a submission sets that
\* submission's score, feedback, gradedAt and gradedBy to the values given
\* and its percentage to round(score / totalPoints * 100), and changes
\* neither its answers, nor the number of submissions, nor any other entry.
C5_GradeOverwritesOneSubmission ==
    [][GradeOverwrites]_vars

\* A submission with answers was graded 3 while another student's one is stored
C5_Witness ==
    /\ last.op = "gradeAssignment" /\ last.status = 200
    /\ Len(assignment.submissions) = 2
    /\ \E i \in 1..2 :
          /\ assignment.submissions[i].studentId = last.studentId
          /\ assignment.submissions[i].score = 3
          /\ assignment.submissions[i].percentage = 100
          /\ Len(assignment.submissions[i].answers) > 0

\* C6: in every state reached through createAssignment and updateAssignment
\* the stored totalPoints is the sum of the points of the stored questions.
C6_TotalPointsFollowQuestions ==
    assignment.exists =>
        assignment.totalPoints =
            Sum([i \in 1..Len(assignment.questions) |-> assignment.questions[i].points])

----------------------------------------------------------------------------
(* Media documents and recordView *)

\* A media document as uploadMedia stores it: nobody has viewed it
UploadedMedia == [exists |-> TRUE, views |-> <<>>]

\* this.views.findIndex(view => view.studentId === studentId): 0 if none
FindView(views, studentId) ==
    LET hits == {i \in 1..Len(views) : views[i].studentId = studentId}
    IN  IF hits = {} THEN 0 ELSE CHOOSE i \in hits : \A j \in hits : i <= j

\* Mutant: a repeated view stores the new percentage whatever the old one
AddViewOverwrites(doc, studentId, percentage, date) ==
    LET i == FindView(doc.views, studentId)
    IN  IF i > 0
        THEN [doc EXCEPT !.views[i].percentage = percentage,
                         !.views[i].date = date]
        ELSE [doc EXCEPT !.views = Append(@,
                 [studentId |-> studentId, percentage |-> percentage, date |-> date])]

\* mediaSchema.methods.addView, up to its save()
AddViewMethod(doc, studentId, percentage, date) ==
    LET i == FindView(doc.views, studentId)
    IN  IF i > 0
        THEN [doc EXCEPT !.views[i].percentage = Max(@, percentage),
                         !.views[i].date = date]
        ELSE [doc EXCEPT !.views = Append(@,
                 [studentId |-> studentId, percentage |-> percentage, date |-> date])]

\* mediaSchema.methods.getAverageWatchPercentage
GetAverageWatchPercentage(doc) ==
    IF Len(doc.views) = 0
    THEN 0
    ELSE MathRound(Sum([i \in 1..Len(doc.views) |-> doc.views[i].percentage]),
                   Len(doc.views))

\* req.body.percentage of recordView
RequestPercentages == {0, 30, 40, 90, 101}

\* recordViewValidation: isFloat({min: 0, max: 100})
ValidPercentage(percentage) == percentage >= 0 /\ percentage <= 100

\* The answer of recordView to a request, before the view is stored
RecordViewStatus(doc, studentId, percentage) ==
    CASE ~ValidPercentage(percentage) -> 400
      [] ~doc.exists -> 404
      [] studentId \notin ClassStudents -> 403
      [] OTHER -> 200

\* controllers: recordView, served without another request in between
RecordView(studentId, percentage) ==
    /\ LET status == RecordViewStatus(media, studentId, percentage)
       IN  /\ media' = IF status = 200
                       THEN AddViewMethod(media, studentId, percentage, now)
                       ELSE media
           /\ last' = Response("recordView", studentId, status, "", studentId,
                               {[percentage |-> percentage]})
    /\ UNCHANGED <<assignment, practice, practices, classes, users, files, uploads,
                   report, reqs, now, submitted>>

InitMedia ==
    /\ assignment = NoAssignment
    /\ media \in {NoMedia, UploadedMedia}
    /\ practice = NoPractice
    /\ practices = NoPractices
    /\ classes = InitialClasses
    /\ users = EnrolledIn(InitialClasses)
    /\ files = NoFiles
    /\ uploads = NoUploads
    /\ report = NoReport
    /\ reqs = NoRequests
    /\ now = 0
    /\ submitted = NoneSubmitted
    /\ last = NoResponse

NextMedia ==
    \/ \E studentId \in Students, percentage \in RequestPercentages :
          RecordView(studentId, percentage)
    \/ Tick

SpecMedia == InitMedia /\ [][NextMedia]_vars

\* The view records of one student, in order
ViewsOf(views, studentId) ==
    SelectSeq(views, LAMBDA view : view.studentId = studentId)

AtMostOneViewPerStudent ==
    \A s \in Students : Len(ViewsOf(media.views, s)) <= 1

ViewIsUpsert ==
    (IsRequest("recordView") /\ last'.status = 200) =>
        LET s == last'.studentId
            given == (CHOOSE b \in last'.body : TRUE).percentage
            old == ViewsOf(media.views, s)
            new == ViewsOf(media'.views, s)
        IN  /\ Len(new) = 1
            /\ IF old = <<>>
               THEN new[1].percentage = given
               ELSE /\ new[1].percentage >= old[1].percentage
                    /\ new[1].percentage >= given
                    /\ new[1].percentage \in {old[1].percentage, given}
            /\ \A t \in Students \ {s} :
                   ViewsOf(media'.views, t) = ViewsOf(media.views, t)

\* C7: after any series of addView calls the views list holds at most one
\* record per student; a first view stores the percentage given, a repeated
\* view stores the larger of the stored and the given percentage, and the
\* records of the other viewers are unchanged.
C7_AddViewIsUpsertWithMax ==
    []AtMostOneViewPerStudent /\ [][ViewIsUpsert]_vars

\* A viewer at 40 has just reported 30 and is still at 40, beside another viewer
C7_Witness ==
    /\ last.op = "recordView" /\ last.status = 200
    /\ last.body = {[percentage |-> 30]}
    /\ Len(media.views) = 2
    /\ ViewsOf(media.views, last.studentId)[1].percentage = 40

----------------------------------------------------------------------------
(* Requests that interleave: each handler first loads the document          *)
(* (findById), later runs the schema method on its own copy and saves it.   *)
(* Mongoose's save() sends the changes made to the copy, not the document:  *)
(* an array that was pushed to goes out as $push and increments the version *)
(* key __v; a field of an array element goes out as $set on its index and   *)
(* an array that was assigned goes out as $set of the whole array, both     *)
(* only if __v is still the one that was loaded (the latter increments it); *)
(* otherwise save() fails with a VersionError, which the handlers answer    *)
(* with 500.  A request is stale when __v has moved since it loaded.        *)
(* Served one after the other, a request loads the document the previous    *)
(* one saved, so its save stores what the method computed, as the handlers  *)
(* above have it.                                                           *)

RequestIds == {"r1", "r2", "r3"}

IdleRequest ==
    [pc |-> "idle", studentId |-> "", body |-> {}, copy |-> {}, stale |-> FALSE]

AllIdle == [r \in RequestIds |-> IdleRequest]

\* The document a loaded request holds
CopyOf(r) == CHOOSE doc \in reqs[r].copy : TRUE

BodyOf(r) == CHOOSE b \in reqs[r].body : TRUE

\* The requests after request r has been answered; a save that incremented
\* __v leaves the other loaded requests with an outdated version
AfterSave(r, incremented) ==
    [q \in RequestIds |->
        IF q = r THEN [reqs[q] EXCEPT !.pc = "done"]
        ELSE IF incremented /\ reqs[q].pc = "loaded"
             THEN [reqs[q] EXCEPT !.stale = TRUE]
             ELSE reqs[q]]

\* this.save() at the end of addView, on the stored document: a record the
\* copy did not have is pushed; a record it had gets its percentage (if
\* Math.max changed it) and date set at the index it has in the copy
SaveView(stored, copy, studentId, percentage, date, stale) ==
    LET index == FindView(copy.views, studentId)
        updated == AddViewMethod(copy, studentId, percentage, date)
    IN  IF index = 0
        THEN [error |-> FALSE, incremented |-> TRUE,
              doc |-> [stored EXCEPT !.views =
                          Append(@, updated.views[Len(updated.views)])]]
        ELSE IF stale
        THEN [error |-> TRUE, incremented |-> FALSE, doc |-> stored]
        ELSE [error |-> FALSE, incremented |-> FALSE,
              doc |-> [stored EXCEPT !.views[index] =
                          [@ EXCEPT !.percentage =
                                       IF updated.views[index].percentage
                                              # copy.views[index].percentage
                                       THEN updated.views[index].percentage
                                       ELSE @,
                                    !.date = date]]]

\* Mutant: save() writes the whole copy over the stored document
SaveSubmissionOverwrites(stored, copy, studentId, answers, stale) ==
    [error |-> FALSE, incremented |-> TRUE,
     doc |-> SubmitAssignmentMethod(copy, studentId, answers)]

\* this.save() at the end of submitAssignment, on the stored document: when
\* the filter removed nothing the list counts as unchanged and the new
\* submission is pushed; otherwise the rebuilt list is set as a whole
SaveSubmission(stored, copy, studentId, answers, stale) ==
    LET graded == SubmitAssignmentMethod(copy, studentId, answers)
    IN  IF WithoutStudent(copy.submissions, studentId) = copy.submissions
        THEN [error |-> FALSE, incremented |-> TRUE,
              doc |-> [stored EXCEPT !.submissions =
                          Append(@, graded.submissions[Len(graded.submissions)])]]
        ELSE IF stale
        THEN [error |-> TRUE, incremented |-> FALSE, doc |-> stored]
        ELSE [error |-> FALSE, incremented |-> TRUE,
              doc |-> [stored EXCEPT !.submissions = graded.submissions]]

\* recordView up to media.findById and the access checks
ViewLoad(r, studentId, percentage) ==
    /\ reqs[r].pc = "idle"
    /\ LET status == RecordViewStatus(media, studentId, percentage)
       IN  IF status = 200
           THEN /\ reqs' = [reqs EXCEPT ![r] =
                       [pc |-> "loaded", studentId |-> studentId,
                        body |-> {[percentage |-> percentage]}, copy |-> {media},
                        stale |-> FALSE]]
                /\ UNCHANGED last
           ELSE /\ reqs' = [reqs EXCEPT ![r].pc = "done"]
                /\ last' = Response("recordView", studentId, status, "", studentId,
                                    {[percentage |-> percentage]})
    /\ UNCHANGED <<assignment, media, practice, practices, classes, users, files,
                   uploads, report, now, submitted>>

\* recordView from media.addView to the response
ViewSave(r) ==
    /\ reqs[r].pc = "loaded"
    /\ LET saved == SaveView(media, CopyOf(r), reqs[r].studentId,
                             BodyOf(r).percentage, now, reqs[r].stale)
       IN  /\ media' = saved.doc
           /\ reqs' = AfterSave(r, saved.incremented)
           /\ last' = Response("recordView", reqs[r].studentId,
                               IF saved.error THEN 500 ELSE 200, "",
                               reqs[r].studentId, reqs[r].body)
    /\ UNCHANGED <<assignment, practice, practices, classes, users, files, uploads,
                   report, now, submitted>>

InitViews ==
    /\ assignment = NoAssignment
    /\ media = UploadedMedia
    /\ practice = NoPractice
    /\ practices = NoPractices
    /\ classes = InitialClasses
    /\ users = EnrolledIn(InitialClasses)
    /\ files = NoFiles
    /\ uploads = NoUploads
    /\ report = NoReport
    /\ reqs = AllIdle
    /\ now = 0
    /\ submitted = NoneSubmitted
    /\ last = NoResponse

NextViews ==
    \/ \E r \in RequestIds, studentId \in Students,
          percentage \in RequestPercentages :
          ViewLoad(r, studentId, percentage)
    \/ \E r \in RequestIds : ViewSave(r)
    \/ Tick

SpecViews == InitViews /\ [][NextViews]_vars

StoredPercentageNeverDecreases ==
    \A s \in Students :
        ViewsOf(media.views, s) # <<>> =>
            /\ ViewsOf(media'.views, s) # <<>>
            /\ ViewsOf(media'.views, s)[1].percentage >=
               ViewsOf(media.views, s)[1].percentage

\* C8: when recordView requests of one student on one media interleave, the
\* views list still holds at most one record per student and the stored
\* percentage of a student never decreases from one stored state to the next.
C8_InterleavedViewsStayMonotone ==
    []AtMostOneViewPerStudent /\ [][StoredPercentageNeverDecreases]_vars

\* submitAssignment up to Assignment.findById; a request that is refused, or
\* whose grading would throw on the document it loaded, is answered here
SubmitLoad(r, studentId, answers) ==
    /\ reqs[r].pc = "idle"
    /\ LET status == SubmitStatus(assignment, studentId, answers, now)
       IN  IF status = 200
           THEN /\ reqs' = [reqs EXCEPT ![r] =
                       [pc |-> "loaded", studentId |-> studentId,
                        body |-> {answers}, copy |-> {assignment},
                        stale |-> FALSE]]
                /\ UNCHANGED last
           ELSE /\ reqs' = [reqs EXCEPT ![r].pc = "done"]
                /\ last' = Response("submitAssignment", studentId, status, "",
                                    studentId, {answers})
    /\ UNCHANGED <<assignment, media, practice, practices, classes, users, files,
                   uploads, report, now, submitted>>

\* submitAssignment from assignment.submitAssignment to the response
SubmitSave(r) ==
    /\ reqs[r].pc = "loaded"
    /\ LET saved == SaveSubmission(assignment, CopyOf(r), reqs[r].studentId,
                                   SanitizedAnswers(BodyOf(r)), reqs[r].stale)
       IN  /\ assignment' = saved.doc
           /\ reqs' = AfterSave(r, saved.incremented)
           /\ submitted' = IF saved.error THEN submitted
                           ELSE [submitted EXCEPT ![reqs[r].studentId] = Min(@ + 1, 2)]
           /\ last' = Response("submitAssignment", reqs[r].studentId,
                               IF saved.error THEN 500 ELSE 200, "",
                               reqs[r].studentId, reqs[r].body)
    /\ UNCHANGED <<media, practice, practices, classes, users, files, uploads, report,
                   now>>

\* The assignments createAssignment can have stored
CreatedAssignments ==
    {PreSaveAssignment(
        [exists |-> TRUE, questions |-> ProcessedQuestions(questions),
         totalPoints |-> 0, submissions |-> <<>>, dueDate |-> dueDate,
         allowLateSubmission |-> allowLate], TRUE) :
     questions \in RequestQuestions, dueDate \in DueDates, allowLate \in BOOLEAN}

InitSubmits ==
    /\ assignment \in CreatedAssignments
    /\ media = NoMedia
    /\ practice = NoPractice
    /\ practices = NoPractices
    /\ classes = InitialClasses
    /\ users = EnrolledIn(InitialClasses)
    /\ files = NoFiles
    /\ uploads = NoUploads
    /\ report = NoReport
    /\ reqs = AllIdle
    /\ now = 0
    /\ submitted = NoneSubmitted
    /\ last = NoResponse

NextSubmits ==
    \/ \E r \in RequestIds, studentId \in Students, answers \in RequestAnswers :
          SubmitLoad(r, studentId, answers)
    \/ \E r \in RequestIds : SubmitSave(r)
    \/ Tick

SpecSubmits == InitSubmits /\ [][NextSubmits]_vars

\* The points the stored questions give for one answer
PointsFor(questions, answer) ==
    LET hits == {i \in 1..Len(questions) :
                    /\ questions[i].id = answer.questionId
                    /\ \E text \in questions[i].correctAnswer :
                          ToLowerCase(Trim(answer.answer)) = ToLowerCase(Trim(text))}
    IN  IF hits = {} THEN 0 ELSE questions[CHOOSE i \in hits : TRUE].points

\* C9: when submitAssignment requests of one student interleave, then once
\* they are served the assignment holds exactly one submission of that
\* student, and it is the one graded from the answers of the request whose
\* save completed last.
C9_LastSaveDeterminesSubmission ==
    (last.op = "submitAssignment" /\ last.status = 200) =>
        LET given == SanitizedAnswers(CHOOSE b \in last.body : TRUE)
            mine == EntriesOf(assignment.submissions, last.studentId)
        IN  /\ Len(mine) = 1
            /\ Len(mine[1].answers) = Len(given)
            /\ \A i \in 1..Len(given) :
                  /\ mine[1].answers[i].questionId = given[i].questionId
                  /\ mine[1].answers[i].answer = given[i].answer
                  /\ mine[1].answers[i].pointsEarned =
                         PointsFor(assignment.questions, given[i])
            /\ mine[1].score =
                   Sum([i \in 1..Len(given) |->
                           PointsFor(assignment.questions, given[i])])
            /\ mine[1].gradedAt = {}

----------------------------------------------------------------------------
(* Practice documents: writing evaluation and typing metrics *)

\* str.toLowerCase().replace(/[^a-z0-9\s]/g, '').trim()
Normalize(str) ==
    Trim(SelectSeq(ToLowerCase(str),
                   LAMBDA c : c \in LowerLetters \cup Digits \cup {Space}))

\* The number of positions i < minLen with norm1[i] === norm2[i]
Matches(norm1, norm2) ==
    Cardinality({i \in 1..Min(Len(norm1), Len(norm2)) : norm1[i] = norm2[i]})

\* Mutant: the matches are divided by the shorter length
SimilarityOverMinLen(content1, content2) ==
    LET norm1 == Normalize(content1)
        norm2 == Normalize(content2)
    IN  IF Len(content1) = 0 \/ Len(content2) = 0 THEN [num |-> 0, den |-> 1]
        ELSE IF norm1 = norm2 THEN [num |-> 1, den |-> 1]
        ELSE IF Min(Len(norm1), Len(norm2)) = 0 THEN [num |-> 0, den |-> 1]
        ELSE [num |-> Matches(norm1, norm2),
              den |-> Min(Len(norm1), Len(norm2))]

\* practiceSchema.methods.calculateContentSimilarity: the ratio num / den
CalculateContentSimilarity(content1, content2) ==
    LET norm1 == Normalize(content1)
        norm2 == Normalize(content2)
        maxLen == Max(Len(norm1), Len(norm2))
    IN  IF Len(content1) = 0 \/ Len(content2) = 0 THEN [num |-> 0, den |-> 1]
        ELSE IF norm1 = norm2 THEN [num |-> 1, den |-> 1]
        ELSE IF maxLen = 0 THEN [num |-> 1, den |-> 1]
        ELSE [num |-> Matches(norm1, norm2), den |-> maxLen]

\* practiceSchema.methods.evaluateWriting
EvaluateWritingMethod(doc) ==
    IF doc.type # "writing" \/ Len(doc.targetContent) = 0
    THEN doc
    ELSE LET similarity == CalculateContentSimilarity(doc.content, doc.targetContent)
             accuracy == MathRound(similarity.num * 100, similarity.den)
         IN  [doc EXCEPT !.accuracy = accuracy,
                         !.score = MathRound(accuracy * doc.maxScore, 100)]

\* keystrokes.filter(k => k.isCorrect).length
CorrectKeystrokes(keystrokes) ==
    Cardinality({i \in 1..Len(keystrokes) : keystrokes[i]})

\* Mutant: the time is not converted to minutes
CalculateTypingMetricsPerSecond(doc) ==
    IF doc.type # "typing"
    THEN doc
    ELSE LET keystrokes == doc.keystrokeData
             correct == CorrectKeystrokes(keystrokes)
             cpm == IF doc.timeSpent > 0
                    THEN MathRound(correct, doc.timeSpent) ELSE 0
         IN  [doc EXCEPT !.charactersPerMinute = {cpm},
                         !.wordsPerMinute =
                             {IF doc.timeSpent > 0 THEN MathRound(cpm, 5) ELSE 0},
                         !.errorCount = {Len(keystrokes) - correct}]

\* practiceSchema.methods.calculateTypingMetrics; keystrokeData is an array
\* (empty when the request sent none), which is never falsy, and totalTime
\* is timeSpent / 60
CalculateTypingMetricsMethod(doc) ==
    IF doc.type # "typing"
    THEN doc
    ELSE LET keystrokes == doc.keystrokeData
             correct == CorrectKeystrokes(keystrokes)
             cpm == IF doc.timeSpent > 0
                    THEN MathRound(correct * 60, doc.timeSpent) ELSE 0
         IN  [doc EXCEPT !.charactersPerMinute = {cpm},
                         !.wordsPerMinute =
                             {IF doc.timeSpent > 0 THEN MathRound(cpm, 5) ELSE 0},
                         !.errorCount = {Len(keystrokes) - correct}]

\* new Practice({...}) as savePractice builds it, before any metric is computed
NewPractice(type, content, targetContent, timeSpent, keystrokeData) ==
    [type |-> type, content |-> content, targetContent |-> targetContent,
     accuracy |-> 0, score |-> 0, maxScore |-> 100, timeSpent |-> timeSpent,
     keystrokeData |-> keystrokeData, charactersPerMinute |-> {},
     wordsPerMinute |-> {}, errorCount |-> {}]

----------------------------------------------------------------------------
(* The overall progress score of the student report *)

\* reduce((sum, row) => sum + row.average, 0) / length as a double
MeanOf(stats) == DoubleDivide(DoubleOf(Sum(stats)), Len(stats))

\* score += (mean / 100) * weight for a category that has rows
Contribution(stats, weight) ==
    IF Len(stats) > 0
    THEN DoubleTimes(DoubleDivide(MeanOf(stats), 100), weight)
    ELSE DoubleOf(0)

\* controllers: calculateOverallProgressScore; each argument is the list of
\* the averages of its rows
CalculateOverallProgressScore(practiceStats, assignmentPerformance, mediaConsumption) ==
    LET weight == (IF Len(practiceStats) > 0 THEN 40 ELSE 0)
                  + (IF Len(assignmentPerformance) > 0 THEN 40 ELSE 0)
                  + (IF Len(mediaConsumption) > 0 THEN 20 ELSE 0)
        score == DoublePlus(DoublePlus(Contribution(practiceStats, 40),
                                       Contribution(assignmentPerformance, 40)),
                            Contribution(mediaConsumption, 20))
    IN  IF weight > 0
        THEN DoubleMathRound(DoubleTimes(DoubleDivide(score, weight), 100))
        ELSE 0

----------------------------------------------------------------------------
(* The scoring functions applied once to every input within the bounds *)

ScoreTexts == StringsUpTo({"a", "A", Space}, MaxStrLen)

\* Assignment documents the schema admits: one question with any text as
\* correctAnswer or none at all, and lists of up to MaxQuestions questions
\* (a document without questions has totalPoints 0)
ScoreQuestions ==
    {<<Question(1, correctAnswer, points, questionType)>> :
        correctAnswer \in {{text} : text \in ScoreTexts} \cup {{}},
        points \in {2},
        questionType \in {"multiple_choice", "short_answer", "long_answer", "true_false"}}
    \cup
    UNION {[1..n -> {Question(id, {<<"a">>}, points, "short_answer") :
                        id \in 1..MaxQuestions, points \in {1, 3}}] :
           n \in 0..MaxQuestions}

ScoreAssignments ==
    {PreSaveAssignment(
        [exists |-> TRUE, questions |-> questions, totalPoints |-> 0,
         submissions |-> <<>>, dueDate |-> 0, allowLateSubmission |-> FALSE], TRUE) :
     questions \in {qs \in ScoreQuestions :
                       \A i, j \in 1..Len(qs) : qs[i].id = qs[j].id => i = j}}

\* req.body.answers as the validation leaves it: one answer with any text, and
\* lists of up to MaxAnswers answers that may name a question twice or name
\* one the assignment does not have
ScoreAnswers ==
    {SanitizedAnswers(answers) :
        answers \in {as \in {<<Answer(questionId, text)>> :
                                questionId \in {1, 2}, text \in ScoreTexts}
                           \cup UNION {[1..n -> {Answer(questionId, <<"A">>) :
                                                    questionId \in 1..(MaxQuestions + 1)}
                                                 \cup {Answer(1, <<"b">>)}] :
                                       n \in 2..MaxAnswers} :
                        ValidAnswers(as)}}

\* Scores a teacher may give: nothing, and more than any document is worth
ScoreGrades == {0, 5}

\* Media documents after zero, one and two students recorded a view
ScoreMedia ==
    {UploadedMedia}
    \cup {AddViewMethod(UploadedMedia, "s1", p, 0) : p \in {0, 40, 90}}
    \cup {AddViewMethod(AddViewMethod(UploadedMedia, "s1", p, 0), "s2", q, 0) :
             p \in {0, 40, 90}, q \in {0, 30}}

\* Writing sessions as savePractice builds them: content and targetContent
\* arrive trimmed, content is never empty
WritingTexts ==
    {text \in StringsUpTo({"a", "1", "A", "!", Space}, MaxContentLen) : Trim(text) = text}
    \cup {<<"a", "b", "c">>}

TargetTexts ==
    {text \in StringsUpTo({"a", "1", "?"}, MaxStrLen) : Trim(text) = text}
    \cup {<<"a", "b", "c", "d", "e", "f">>}

WritingSessions ==
    {NewPractice("writing", content, targetContent, 0, <<>>) :
        content \in WritingTexts \ {<<>>}, targetContent \in TargetTexts}

\* Typing sessions: timeSpent in seconds, keystrokeData as the isCorrect flags
TypingSessions ==
    {NewPractice("typing", <<"a">>, <<>>, timeSpent, keystrokes) :
        timeSpent \in {0, 7, 20, 45, 60},
        keystrokes \in UNION {[1..n -> BOOLEAN] : n \in 0..MaxKeystrokes}}

\* The averages of the rows of a report category: averageAccuracy of the
\* practice types, averagePercentage and averageWatchPercentage of the classes
StatLists == UNION {[1..n -> {0, 47, 80, 100}] : n \in 0..MaxStats}
AssignmentRows == {<<>>, <<47>>, <<80>>}
MediaRows == {<<>>, <<100>>}

ReportInputs ==
    {[computed |-> FALSE, practiceStats |-> p, assignmentPerformance |-> a,
      mediaConsumption |-> m] : p \in StatLists, a \in AssignmentRows, m \in MediaRows}

InitScore ==
    /\ \/ /\ assignment \in ScoreAssignments
          /\ media = NoMedia /\ practice = NoPractice /\ report = NoReport
       \/ /\ media \in ScoreMedia
          /\ assignment = NoAssignment /\ practice = NoPractice /\ report = NoReport
       \/ /\ practice \in WritingSessions \cup TypingSessions
          /\ assignment = NoAssignment /\ media = NoMedia /\ report = NoReport
       \/ /\ report \in ReportInputs
          /\ assignment = NoAssignment /\ media = NoMedia /\ practice = NoPractice
    /\ practices = NoPractices
    /\ classes = InitialClasses
    /\ users = EnrolledIn(InitialClasses)
    /\ files = NoFiles
    /\ uploads = NoUploads
    /\ reqs = NoRequests
    /\ now = 0
    /\ submitted = NoneSubmitted
    /\ last = NoResponse

\* assignment.submitAssignment("s1", answers) on a stored document
ApplySubmit(answers) ==
    /\ assignment.exists /\ last.op = "none"
    /\ LET thrown == SubmitThrows(assignment.questions, answers)
       IN  /\ assignment' = IF thrown THEN assignment
                            ELSE SubmitAssignmentMethod(assignment, "s1", answers)
           /\ submitted' = IF thrown THEN submitted
                           ELSE [submitted EXCEPT !["s1"] = 1]
           /\ last' = Response("submitAssignment", "s1", IF thrown THEN 500 ELSE 200,
                               "", "s1", {answers})
    /\ UNCHANGED <<media, practice, practices, classes, users, files, uploads, report,
                   reqs, now>>

\* assignment.gradeAssignment(studentId, score, undefined, ClassTeacher)
ApplyGrade(studentId, score) ==
    /\ assignment.exists /\ last.op \in {"none", "submitAssignment"}
    /\ LET result == GradeAssignmentMethod(assignment, studentId, score, {},
                                           ClassTeacher, now)
       IN  /\ assignment' = result.doc
           /\ last' = Response("gradeAssignment", ClassTeacher,
                               IF result.thrown THEN 404 ELSE 200,
                               IF result.thrown THEN "Submission not found" ELSE "",
                               studentId, {[score |-> score, feedback |-> {}]})
    /\ UNCHANGED <<media, practice, practices, classes, users, files, uploads, report,
                   reqs, now, submitted>>

\* Reading assignment.averageScore
ReadAverageScore ==
    /\ assignment.exists /\ last.op \in {"none", "submitAssignment"}
    /\ last' = Response("averageScore", "", 0, "", "", {AverageScore(assignment)})
    /\ UNCHANGED <<assignment, media, practice, practices, classes, users, files,
                   uploads, report, reqs, now, submitted>>

\* media.getAverageWatchPercentage()
ReadAverageWatchPercentage ==
    /\ media.exists /\ last.op = "none"
    /\ last' = Response("getAverageWatchPercentage", "", 0, "", "",
                        {GetAverageWatchPercentage(media)})
    /\ UNCHANGED <<assignment, media, practice, practices, classes, users, files,
                   uploads, report, reqs, now, submitted>>

\* savePractice: practice.calculateTypingMetrics() or practice.evaluateWriting()
ComputePracticeMetrics ==
    /\ practice.type # "none" /\ last.op = "none"
    /\ practice' = IF practice.type = "typing"
                   THEN CalculateTypingMetricsMethod(practice)
                   ELSE EvaluateWritingMethod(practice)
    /\ last' = Response("savePractice", "s1", 201, "", "s1", {})
    /\ UNCHANGED <<assignment, media, practices, classes, users, files, uploads, report,
                   reqs, now, submitted>>

\* calculateOverallProgressScore over the rows of a report
ComputeOverallProgress ==
    /\ report.computed = FALSE /\ "practiceStats" \in DOMAIN report
    /\ report' = [report EXCEPT !.computed = TRUE]
    /\ last' = Response("calculateOverallProgressScore", "", 0, "", "",
                        {CalculateOverallProgressScore(report.practiceStats,
                                                       report.assignmentPerformance,
                                                       report.mediaConsumption)})
    /\ UNCHANGED <<assignment, media, practice, practices, classes, users, files,
                   uploads, reqs, now, submitted>>

NextScore ==
    \/ \E answers \in ScoreAnswers : ApplySubmit(answers)
    \/ \E studentId \in {"s1", "s2"}, score \in ScoreGrades : ApplyGrade(studentId, score)
    \/ ReadAverageScore
    \/ ReadAverageWatchPercentage
    \/ ComputePracticeMetrics
    \/ ComputeOverallProgress

SpecScore == InitScore /\ [][NextScore]_vars

----------------------------------------------------------------------------
(* Properties of the scoring functions *)

\* r is the integer nearest to n / d, halves upwards
IsNearestRatio(r, n, d) ==
    /\ 2 * r * d <= 2 * n + d
    /\ 2 * n + d < 2 * (r + 1) * d

\* lowercase(trim(text)) of both texts is the same
SameAnswerText(answer, correctAnswer) ==
    ToLowerCase(Trim(answer)) = ToLowerCase(Trim(correctAnswer))

\* C2: submitAssignment stores, for each submitted answer whose questionId
\* matches a question, isCorrect = true exactly when lowercase(trim(answer))
\* equals lowercase(trim(correctAnswer)), and pointsEarned equal to the full
\* points of that question when correct and 0 otherwise, whatever the
\* questionType; the stored score is the sum of pointsEarned over the
\* submitted answers and the stored percentage is round(score / totalPoints
\* * 100) when totalPoints > 0.
C2_SubmitGradesByTextEquality ==
    (last.op = "submitAssignment" /\ last.status = 200) =>
        LET given == CHOOSE b \in last.body : TRUE
            mine == EntriesOf(assignment.submissions, last.studentId)
            stored == mine[1].answers
            questions == assignment.questions
        IN  /\ Len(mine) = 1
            /\ Len(stored) = Len(given)
            /\ \A i \in 1..Len(given), k \in 1..Len(questions) :
                  questions[k].id = given[i].questionId =>
                     /\ stored[i].isCorrect =
                            (\E text \in questions[k].correctAnswer :
                                SameAnswerText(given[i].answer, text))
                     /\ stored[i].pointsEarned =
                            IF stored[i].isCorrect THEN questions[k].points ELSE 0
            /\ mine[1].score = Sum([i \in 1..Len(stored) |-> stored[i].pointsEarned])
            /\ assignment.totalPoints > 0 =>
                  IsNearestRatio(mine[1].percentage, 100 * mine[1].score,
                                 assignment.totalPoints)

\* A submission was graded in which one answer is correct although its text
\* differs from the correctAnswer as written, another answer earns nothing,
\* and the percentage is neither 0 nor 100
C2_Witness ==
    /\ last.op = "submitAssignment" /\ last.status = 200
    /\ Len(assignment.submissions) = 1
    /\ LET sub == assignment.submissions[1]
       IN  /\ sub.percentage \in 1..99
           /\ \E i, j \in 1..Len(sub.answers) :
                 /\ sub.answers[i].isCorrect
                 /\ sub.answers[i].pointsEarned > 0
                 /\ \A k \in 1..Len(assignment.questions) :
                       {sub.answers[i].answer} # assignment.questions[k].correctAnswer
                 /\ ~sub.answers[j].isCorrect
                 /\ sub.answers[j].pointsEarned = 0

\* C3: every ratio of the scoring code yields 0 when its denominator is
\* zero: the percentage of a submission when totalPoints = 0 (after
\* submitAssignment and after gradeAssignment, whatever the score),
\* charactersPerMinute and wordsPerMinute when timeSpent = 0, averageScore
\* of an assignment without submissions, the average watch percentage of a
\* media without views, and the overall progress score without any data.
C3_ZeroDenominatorsYieldZero ==
    /\ (assignment.exists /\ assignment.totalPoints = 0) =>
          \A i \in 1..Len(assignment.submissions) :
              assignment.submissions[i].percentage = 0
    /\ (last.op = "savePractice" /\ practice.type = "typing" /\ practice.timeSpent = 0) =>
          /\ practice.charactersPerMinute = {0}
          /\ practice.wordsPerMinute = {0}
    /\ (last.op = "averageScore" /\ Len(assignment.submissions) = 0) =>
          last.body = {0}
    /\ (last.op = "getAverageWatchPercentage" /\ Len(media.views) = 0) =>
          last.body = {0}
    /\ (/\ last.op = "calculateOverallProgressScore"
        /\ Len(report.practiceStats) = 0
        /\ Len(report.assignmentPerformance) = 0
        /\ Len(report.mediaConsumption) = 0) =>
          last.body = {0}

\* A submission to an assignment worth 0 points was given 5 points by the
\* teacher and holds percentage 0
C3_Witness ==
    /\ last.op = "gradeAssignment" /\ last.status = 200
    /\ assignment.totalPoints = 0
    /\ Len(assignment.submissions) = 1
    /\ assignment.submissions[1].score = 5
    /\ assignment.submissions[1].percentage = 0
    /\ assignment.submissions[1].gradedBy = {ClassTeacher}

\* Lowercased, with every character other than a-z, 0-9 and whitespace removed
RECURSIVE KeptLowercased(_)
KeptLowercased(str) ==
    IF str = <<>> THEN <<>>
    ELSE LET c == LowerChar(Head(str))
         IN  (IF c \in LowerLetters \cup Digits \cup {Space} THEN <<c>> ELSE <<>>)
             \o KeptLowercased(Tail(str))

\* C10: evaluateWriting on a writing session with a target normalizes both
\* strings (lowercased, every character other than a-z, 0-9 and whitespace
\* removed, trimmed); equal normalized strings give accuracy 100 and score
\* maxScore; otherwise similarity is the number of positions below the
\* shorter length with equal characters over the longer length, accuracy is
\* round(similarity * 100) and score is round(accuracy / 100 * maxScore);
\* 'abc' against 'abcdef' gives accuracy 50, and accuracy is within 0..100.
C10_EvaluateWritingScoresBySimilarity ==
    (last.op = "savePractice" /\ practice.type = "writing"
        /\ practice.targetContent # <<>>) =>
        LET norm1 == Trim(KeptLowercased(practice.content))
            norm2 == Trim(KeptLowercased(practice.targetContent))
            shorter == IF Len(norm1) <= Len(norm2) THEN Len(norm1) ELSE Len(norm2)
            longer == IF Len(norm1) <= Len(norm2) THEN Len(norm2) ELSE Len(norm1)
            equal == Cardinality({i \in 1..shorter : norm1[i] = norm2[i]})
        IN  /\ norm1 = norm2 =>
                  practice.accuracy = 100 /\ practice.score = practice.maxScore
            /\ norm1 # norm2 =>
                  /\ IsNearestRatio(practice.accuracy, 100 * equal, longer)
                  /\ IsNearestRatio(practice.score,
                                    practice.accuracy * practice.maxScore, 100)
            /\ practice.accuracy \in 0..100
            /\ (practice.content = <<"a", "b", "c">>
                   /\ practice.targetContent = <<"a", "b", "c", "d", "e", "f">>) =>
                  practice.accuracy = 50

\* 'abc' was evaluated against 'abcdef'
C10_Witness ==
    /\ last.op = "savePractice"
    /\ practice.type = "writing"
    /\ practice.content = <<"a", "b", "c">>
    /\ practice.targetContent = <<"a", "b", "c", "d", "e", "f">>
    /\ practice.accuracy = 50
    /\ practice.score = 50

\* The number of keystrokes whose isCorrect is true
RECURSIVE CorrectCount(_)
CorrectCount(keystrokes) ==
    IF keystrokes = <<>> THEN 0
    ELSE (IF Head(keystrokes) THEN 1 ELSE 0) + CorrectCount(Tail(keystrokes))

\* C11: calculateTypingMetrics on a typing session sets charactersPerMinute
\* to round(correctCount / (timeSpent / 60)) when timeSpent > 0 and to 0
\* otherwise, wordsPerMinute to round(charactersPerMinute / 5) and errorCount
\* to the number of keystrokes minus correctCount, so that correctCount +
\* errorCount is the number of keystrokes.
C11_TypingMetrics ==
    (last.op = "savePractice" /\ practice.type = "typing") =>
        LET correctCount == CorrectCount(practice.keystrokeData)
        IN  \E cpm, wpm, errors \in 0..(60 * MaxKeystrokes + 60) :
               /\ practice.charactersPerMinute = {cpm}
               /\ practice.wordsPerMinute = {wpm}
               /\ practice.errorCount = {errors}
               /\ IF practice.timeSpent > 0
                  THEN IsNearestRatio(cpm, 60 * correctCount, practice.timeSpent)
                  ELSE cpm = 0
               /\ IsNearestRatio(wpm, cpm, 5)
               /\ errors = Len(practice.keystrokeData) - correctCount
               /\ correctCount + errors = Len(practice.keystrokeData)

\* The metrics of a 45 second session with two correct keystrokes out of
\* three were computed: 2 / 0.75 rounds to 3 characters and 1 word a minute
C11_Witness ==
    /\ last.op = "savePractice"
    /\ practice.type = "typing"
    /\ practice.timeSpent = 45
    /\ practice.keystrokeData = <<TRUE, FALSE, TRUE>>
    /\ practice.charactersPerMinute = {3}
    /\ practice.wordsPerMinute = {1}
    /\ practice.errorCount = {1}

\* The number of rows of a category, 1 for a category without rows
RowsOrOne(stats) == IF Len(stats) > 0 THEN Len(stats) ELSE 1

\* C12: calculateOverallProgressScore returns 0 when no category has rows,
\* and otherwise the sum of the contributions (mean/100*40 for practice,
\* mean/100*40 for assignments, mean/100*20 for media, of the categories
\* that have rows) over the sum of their weights, times 100, rounded; with
\* one category only this is the rounded mean of that category (80 for
\* practice alone at 80, 100 at 100), and the result is an integer in 0..100.
C12_OverallProgressScore ==
    (last.op = "calculateOverallProgressScore") =>
        LET p == report.practiceStats
            a == report.assignmentPerformance
            m == report.mediaConsumption
            weight == (IF Len(p) > 0 THEN 40 ELSE 0) + (IF Len(a) > 0 THEN 40 ELSE 0)
                      + (IF Len(m) > 0 THEN 20 ELSE 0)
            rows == RowsOrOne(p) * RowsOrOne(a) * RowsOrOne(m)
            weighted == 40 * Sum(p) * RowsOrOne(a) * RowsOrOne(m)
                        + 40 * Sum(a) * RowsOrOne(p) * RowsOrOne(m)
                        + 20 * Sum(m) * RowsOrOne(p) * RowsOrOne(a)
        IN  \E result \in 0..100 :
               /\ last.body = {result}
               /\ weight = 0 => result = 0
               /\ weight > 0 => IsNearestRatio(result, weighted, weight * rows)
               /\ (Len(p) > 0 /\ a = <<>> /\ m = <<>>) =>
                      IsNearestRatio(result, Sum(p), Len(p))
               /\ (p = <<>> /\ Len(a) > 0 /\ m = <<>>) =>
                      IsNearestRatio(result, Sum(a), Len(a))
               /\ (p = <<>> /\ a = <<>> /\ Len(m) > 0) =>
                      IsNearestRatio(result, Sum(m), Len(m))
               /\ (p = <<80>> /\ a = <<>> /\ m = <<>>) => result = 80
               /\ (p = <<100>> /\ a = <<>> /\ m = <<>>) => result = 100

----------------------------------------------------------------------------
(* The Practice collection: savePractice, updatePractice, deletePractice.  *)
(* A practiceId is the position of the document in the collection; a class *)
(* id is the position of the class.  Optional request fields are sets.     *)

MaxPractices == 2

\* Class.findById(classId)
FindClassById(classId) ==
    IF classId \in 1..Len(classes) THEN {classes[classId]} \ {DeletedClass} ELSE {}

\* Request bodies of savePractice
PracticeBody(type, category, content, targetContent, accuracy, timeSpent, attempts, typingData, classId) ==
    [type |-> type, category |-> category, content |-> content, targetContent |-> targetContent,
     accuracy |-> accuracy, timeSpent |-> timeSpent, attempts |-> attempts,
     typingData |-> typingData, classId |-> classId]

SaveRequests ==
    { \* writing against a target, no accuracy sent
      [user |-> "s1",
       body |-> PracticeBody("writing", "alphabet", <<"a", "b">>, <<"a", "b">>, {}, {}, {}, {}, {})],
      \* writing without a target, accuracy 80 sent
      [user |-> "s1",
       body |-> PracticeBody("writing", "word", <<"a">>, <<>>, {80}, {30}, {}, {}, {})],
      \* typing, third attempt
      [user |-> "s2",
       body |-> PracticeBody("typing", "word", <<"a">>, <<>>, {50}, {60}, {3},
                             {<<TRUE, FALSE>>}, {})],
      \* writing for a class the student is enrolled in
      [user |-> "s2",
       body |-> PracticeBody("writing", "sentence", <<"a">>, <<>>, {50}, {}, {1}, {}, {1})],
      \* writing for a class the student is not enrolled in
      [user |-> "s3",
       body |-> PracticeBody("writing", "sentence", <<"a">>, <<>>, {50}, {}, {1}, {}, {1})],
      \* accuracy out of range
      [user |-> "s1",
       body |-> PracticeBody("writing", "alphabet", <<"a">>, <<>>, {101}, {}, {}, {}, {})] }

\* savePracticeValidation
ValidPracticeBody(body) ==
    /\ body.type \in {"writing", "typing", "drawing"}
    /\ body.category \in {"alphabet", "number", "word", "sentence", "math", "science",
                         "general"}
    /\ Len(Trim(body.content)) >= 1
    /\ \A accuracy \in body.accuracy : accuracy >= 0 /\ accuracy <= 100
    /\ \A timeSpent \in body.timeSpent : timeSpent >= 0
    /\ \A attempts \in body.attempts : attempts >= 1

\* value || fallback for an optional number
OrElse(value, fallback) ==
    IF value = {} \/ value = {0} THEN fallback ELSE CHOOSE v \in value : TRUE

\* savePractice: the document built by new Practice({...}); the validators
\* have trimmed content and targetContent
BuiltPractice(studentId, body, date) ==
    [studentId |-> studentId, date |-> date, type |-> body.type,
     category |-> body.category, content |-> Trim(body.content),
     targetContent |-> Trim(body.targetContent),
     accuracy |-> OrElse(body.accuracy, 0), score |-> 0, maxScore |-> 100,
     timeSpent |-> OrElse(body.timeSpent, 0),
     attempts |-> OrElse(body.attempts, 1),
     keystrokeData |-> IF body.typingData = {} THEN <<>>
                       ELSE CHOOSE k \in body.typingData : TRUE,
     charactersPerMinute |-> {}, wordsPerMinute |-> {}, errorCount |-> {},
     isCompleted |-> FALSE, completionTime |-> {}, isActive |-> TRUE,
     classId |-> body.classId]

\* savePractice: the metrics by type, then the completion status, which is
\* decided on the accuracy of the request
SavedPractice(studentId, body, date) ==
    LET built == BuiltPractice(studentId, body, date)
        measured == IF body.type = "typing" /\ body.typingData # {}
                    THEN CalculateTypingMetricsMethod(built)
                    ELSE IF body.type = "writing" /\ Len(Trim(body.targetContent)) > 0
                    THEN EvaluateWritingMethod(built)
                    ELSE built
    IN  IF (\E accuracy \in body.accuracy : accuracy >= 80) \/ measured.attempts >= 3
        THEN [measured EXCEPT !.isCompleted = TRUE,
                              !.completionTime = body.timeSpent]
        ELSE measured

\* savePractice: the status answered
SavePracticeStatus(user, body) ==
    IF ~ValidPracticeBody(body) THEN 400
    ELSE IF \E classId \in body.classId :
               \A classData \in FindClassById(classId) : user \notin classData.students
    THEN 403
    ELSE 201

\* controllers: savePractice
SavePractice(user, body) ==
    /\ Len(practices) < MaxPractices
    /\ practices' = IF SavePracticeStatus(user, body) = 201
                    THEN Append(practices, SavedPractice(user, body, now))
                    ELSE practices
    /\ last' = Response("savePractice", user, SavePracticeStatus(user, body), "",
                        "", {})
    /\ UNCHANGED <<assignment, media, practice, classes, users, files, uploads, report,
                   reqs, now, submitted>>

\* Request bodies of updatePractice
UpdateBody(accuracy, attempts, isCompleted) ==
    [accuracy |-> accuracy, attempts |-> attempts, isCompleted |-> isCompleted]

UpdateRequests ==
    {UpdateBody({90}, {}, {}), UpdateBody({}, {3}, {TRUE}), UpdateBody({101}, {}, {})}

\* updatePracticeValidation
ValidUpdateBody(updateData) ==
    /\ \A accuracy \in updateData.accuracy : accuracy >= 0 /\ accuracy <= 100
    /\ \A attempts \in updateData.attempts : attempts >= 1

\* Practice.findByIdAndUpdate(practiceId, updateData): the fields sent are set
UpdatedPractice(doc, updateData) ==
    [doc EXCEPT
        !.accuracy = IF updateData.accuracy = {} THEN @
                     ELSE CHOOSE v \in updateData.accuracy : TRUE,
        !.attempts = IF updateData.attempts = {} THEN @
                     ELSE CHOOSE v \in updateData.attempts : TRUE,
        !.isCompleted = IF updateData.isCompleted = {} THEN @
                        ELSE CHOOSE v \in updateData.isCompleted : TRUE]

\* updatePractice, deletePractice: the status answered
OwnerStatus(user, practiceId) ==
    IF practiceId \notin 1..Len(practices) THEN 404
    ELSE IF practices[practiceId].studentId # user THEN 403
    ELSE 200

UpdatePracticeStatus(user, practiceId, updateData) ==
    IF ~ValidUpdateBody(updateData) THEN 400 ELSE OwnerStatus(user, practiceId)

\* controllers: updatePractice
UpdatePractice(user, practiceId, updateData) ==
    /\ practices' = IF UpdatePracticeStatus(user, practiceId, updateData) = 200
                    THEN [practices EXCEPT
                             ![practiceId] = UpdatedPractice(@, updateData)]
                    ELSE practices
    /\ last' = Response("updatePractice", user,
                        UpdatePracticeStatus(user, practiceId, updateData), "",
                        "", {})
    /\ UNCHANGED <<assignment, media, practice, classes, users, files, uploads, report,
                   reqs, now, submitted>>

\* Mutant: the document is removed from the collection
DeletePracticeRemoves(user, practiceId) ==
    /\ practices' = IF OwnerStatus(user, practiceId) = 200
                    THEN SubSeq(practices, 1, practiceId - 1)
                         \o SubSeq(practices, practiceId + 1, Len(practices))
                    ELSE practices
    /\ last' = Response("deletePractice", user, OwnerStatus(user, practiceId), "",
                        "", {})
    /\ UNCHANGED <<assignment, media, practice, classes, users, files, uploads, report,
                   reqs, now, submitted>>

\* controllers: deletePractice
DeletePractice(user, practiceId) ==
    /\ practices' = IF OwnerStatus(user, practiceId) = 200
                    THEN [practices EXCEPT ![practiceId].isActive = FALSE]
                    ELSE practices
    /\ last' = Response("deletePractice", user, OwnerStatus(user, practiceId), "",
                        "", {})
    /\ UNCHANGED <<assignment, media, practice, classes, users, files, uploads, report,
                   reqs, now, submitted>>

InitPractice ==
    /\ assignment = NoAssignment
    /\ media = NoMedia
    /\ practice = NoPractice
    /\ practices = NoPractices
    /\ classes = InitialClasses
    /\ users = EnrolledIn(InitialClasses)
    /\ files = NoFiles
    /\ uploads = NoUploads
    /\ report = NoReport
    /\ reqs = NoRequests
    /\ now = 0
    /\ submitted = NoneSubmitted
    /\ last = NoResponse

NextPractice ==
    \/ \E request \in SaveRequests : SavePractice(request.user, request.body)
    \/ \E user \in {"s1", "s2"}, practiceId \in 1..(MaxPractices + 1),
          updateData \in UpdateRequests :
          UpdatePractice(user, practiceId, updateData)
    \/ \E user \in {"s1", "s2"}, practiceId \in 1..(MaxPractices + 1) :
          DeletePractice(user, practiceId)

SpecPractice == InitPractice /\ [][NextPractice]_vars

\* C13: after savePractice, and after any later updatePractice, every stored
\* practice session whose stored accuracy is at least 80 or whose attempts
\* are at least 3 has isCompleted = true.
C13_CompletedOnceAccurateOrThirdAttempt ==
    \A i \in 1..Len(practices) :
        (practices[i].accuracy >= 80 \/ practices[i].attempts >= 3) =>
            practices[i].isCompleted

\* C14: a submitAssignment call in which some answer's questionId matches no
\* question of the assignment is answered with a NotFound failure (404) once
\* it has passed the checks of the request, and no answer with such a
\* questionId is stored as an incorrect answer worth 0 points.
C14_UnknownQuestionIsNotFound ==
    (/\ last.op = "submitAssignment" /\ assignment.exists
     /\ last.status \notin {400, 403}) =>
        LET given == SanitizedAnswers(CHOOSE b \in last.body : TRUE)
            unknown == {i \in 1..Len(given) :
                           QuestionById(assignment.questions, given[i].questionId) = {}}
            mine == EntriesOf(assignment.submissions, last.studentId)
        IN  unknown # {} =>
               /\ last.status = 404
               /\ \A k \in 1..Len(mine) : \A j \in 1..Len(mine[k].answers) :
                     QuestionById(assignment.questions,
                                  mine[k].answers[j].questionId) # {}

----------------------------------------------------------------------------
(* The Class collection: createClass with the code generated by the        *)
(* pre('save') hook, interleaved with other requests, and joinClassByCode  *)

\* The codes Math.random().toString(36).substring(2, 8).toUpperCase() yields
ClassCodes == {"A", "B", "C"}

\* Class.findOne({ classCode })
FindClassByCode(docs, classCode) ==
    {docs[i] : i \in {j \in 1..Len(docs) : docs[j].classCode = {classCode}}}

\* new Class({ name, subject, description, teacherId, maxStudents }) with the
\* code the hook has set
NewClass(teacherId, classCode) ==
    [teacherId |-> teacherId, students |-> {}, classCode |-> {classCode},
     maxStudents |-> DefaultMaxStudents, isActive |-> TRUE]

\* Mutant: the collection has no unique index on classCode
InsertClassUnindexed(docs, doc) ==
    [error |-> FALSE, docs |-> Append(docs, doc)]

\* The insert of a new class: classCode is declared unique, so the store
\* refuses a document whose code another class holds
InsertClass(docs, doc) ==
    IF \E classCode \in doc.classCode : FindClassByCode(docs, classCode) # {}
    THEN [error |-> TRUE, docs |-> docs]
    ELSE [error |-> FALSE, docs |-> Append(docs, doc)]

\* createClass up to one round of the loop of the hook: a code is generated
\* and looked up; the loop goes on while a class with the code exists
CreateClassLookup(r, user, classCode) ==
    /\ reqs[r].pc \in {"idle", "generating"}
    /\ reqs[r].pc = "generating" => reqs[r].studentId = user
    /\ reqs' = [reqs EXCEPT ![r] =
                   IF FindClassByCode(classes, classCode) # {}
                   THEN [IdleRequest EXCEPT !.pc = "generating", !.studentId = user]
                   ELSE [IdleRequest EXCEPT !.pc = "generated", !.studentId = user,
                                            !.body = {classCode}]]
    /\ last' = Response("findOne", user, 0, "", "", {classCode})
    /\ UNCHANGED <<assignment, media, practice, practices, classes, users, files,
                   uploads, report, now, submitted>>

\* createClass from the insert to the response
CreateClassSave(r) ==
    /\ reqs[r].pc = "generated"
    /\ LET saved == InsertClass(classes, NewClass(reqs[r].studentId, BodyOf(r)))
       IN  /\ classes' = saved.docs
           /\ last' = Response("createClass", reqs[r].studentId,
                               IF saved.error THEN 500 ELSE 201, "", "", reqs[r].body)
    /\ reqs' = [reqs EXCEPT ![r].pc = "done"]
    /\ UNCHANGED <<assignment, media, practice, practices, users, files, uploads,
                   report, now, submitted>>

\* joinClassByCode: the status answered on the class that findOne returned
JoinClassStatus(studentId, classCode) ==
    IF FindClassByCode(classes, classCode) = {} THEN 404
    ELSE IF \E classData \in FindClassByCode(classes, classCode) :
                \/ ~classData.isActive
                \/ Cardinality(classData.students) >= classData.maxStudents
                \/ studentId \in classData.students
    THEN 400
    ELSE 200

\* classSchema.methods.addStudent: a later save of a stored class
AddStudent(classData, studentId) ==
    [classData EXCEPT !.students = @ \cup {studentId}]

\* controllers: joinClassByCode
JoinClassByCode(studentId, classCode) ==
    /\ classes' = IF JoinClassStatus(studentId, classCode) = 200
                  THEN [i \in 1..Len(classes) |->
                           IF classes[i].classCode = {classCode}
                           THEN AddStudent(classes[i], studentId)
                           ELSE classes[i]]
                  ELSE classes
    /\ last' = Response("joinClassByCode", studentId,
                        JoinClassStatus(studentId, classCode), "", studentId,
                        {classCode})
    /\ users' = IF JoinClassStatus(studentId, classCode) = 200
                THEN [users EXCEPT ![studentId] =
                         @ \cup {i \in 1..Len(classes) : classes[i].classCode = {classCode}}]
                ELSE users
    /\ UNCHANGED <<assignment, media, practice, practices, files, uploads, report, reqs,
                   now, submitted>>

\* controllers: getClassById, behind verifyToken and the format check of
\* the id; the class found is sent to whoever asks
GetClassById(user, classId) ==
    /\ last' = IF FindClassById(classId) = {}
               THEN Response("getClassById", user, 404, "Class not found", "", {})
               ELSE Response("getClassById", user, 200, "", "", FindClassById(classId))
    /\ UNCHANGED <<assignment, media, practice, practices, classes, users, files,
                   uploads, report, reqs, now, submitted>>

InitClass ==
    /\ assignment = NoAssignment
    /\ media = NoMedia
    /\ practice = NoPractice
    /\ practices = NoPractices
    /\ classes = InitialClasses
    /\ users = EnrolledIn(InitialClasses)
    /\ files = NoFiles
    /\ uploads = NoUploads
    /\ report = NoReport
    /\ reqs = AllIdle
    /\ now = 0
    /\ submitted = NoneSubmitted
    /\ last = NoResponse

NextClass ==
    \/ \E r \in RequestIds, user \in Teachers, classCode \in ClassCodes :
          CreateClassLookup(r, user, classCode)
    \/ \E r \in RequestIds : CreateClassSave(r)
    \/ \E studentId \in {"s1", "s3"}, classCode \in ClassCodes :
          JoinClassByCode(studentId, classCode)
    \/ \E user \in {"t1", "t2", "s1", "s3"}, classId \in {1, 5} :
          GetClassById(user, classId)

SpecClass == InitClass /\ [][NextClass]_vars

\* C16: in every reachable state no two stored classes have the same
\* classCode, also when createClass requests interleave between the lookup
\* and the save; a class saved for the first time gets the code for which
\* the lookup of its request found no class, and the code of a stored class
\* is never changed by a later save.
C16_ClassCodeUnique ==
    /\ [](\A i, j \in 1..Len(classes) :
             classes[i].classCode = classes[j].classCode => i = j)
    /\ [][/\ \A i \in 1..Len(classes) :
                /\ i <= Len(classes')
                /\ classes'[i].classCode = classes[i].classCode
          /\ \A r \in RequestIds :
                (reqs[r].pc # "generated" /\ reqs'[r].pc = "generated") =>
                    FindClassByCode(classes, CHOOSE c \in reqs'[r].body : TRUE) = {}
          /\ Len(classes') > Len(classes) =>
                \E r \in RequestIds :
                    /\ reqs[r].pc = "generated" /\ reqs'[r].pc = "done"
                    /\ classes' = Append(classes,
                                         NewClass(reqs[r].studentId, BodyOf(r)))]_vars

\* Two createClass requests found no class with code B; the first stored its
\* class, the second was refused, and a student has joined the stored class
C16_Witness ==
    /\ last.op = "createClass" /\ last.status = 500 /\ last.body = {"B"}
    /\ Len(classes) = 2
    /\ classes[2].classCode = {"B"} /\ classes[2].students = {"s3"}

\* C19: getClassById returns the details of a class only to the teacher of
\* the class and to the students enrolled in it; any other user is refused.
C19_ClassDetailsForMembersOnly ==
    (last.op = "getClassById" /\ last.status = 200) =>
        \A classData \in last.body :
            \/ last.user = classData.teacherId
            \/ last.user \in classData.students

----------------------------------------------------------------------------
(* The endpoints that take a period: getPracticeStats, the student         *)
(* progress report, the student practice analytics and the class           *)
(* analytics.  A date is a day number; day 0 is the first day of a year    *)
(* and the years modelled have YearDays days.                              *)

YearDays == 365
TopCount == 5

\* The first day of each month, counted from the first day of the year
MonthStarts == {0, 31, 59, 90, 120, 151, 181, 212, 243, 273, 304, 334}

\* new Date(now.getFullYear(), 0, 1)
StartOfYear(date) == date - (date % YearDays)

\* new Date(now.getFullYear(), now.getMonth(), 1)
StartOfMonth(date) ==
    StartOfYear(date)
        + (CHOOSE m \in MonthStarts :
              /\ m <= date % YearDays
              /\ \A other \in MonthStarts : other <= date % YearDays => other <= m)

\* The period tokens of a request; "" is a request without period
Periods == {"", "day", "week", "month", "quarter", "year"}

\* Mutant: 'month' is the rolling window of 30 days
PracticeStatsStartRolling(period, date) ==
    CASE period = "day" -> date
      [] period = "week" -> date - 7
      [] period = "month" -> date - 30
      [] period = "year" -> StartOfYear(date)
      [] OTHER -> date - 7

\* getPracticeStats: switch (period), the default being 'week'
PracticeStatsStart(period, date) ==
    CASE period = "day" -> date
      [] period = "week" -> date - 7
      [] period = "month" -> StartOfMonth(date)
      [] period = "year" -> StartOfYear(date)
      [] OTHER -> date - 7

\* getStudentProgressReport: switch (period), the default being 'month'
ProgressReportStart(period, date) ==
    CASE period = "week" -> date - 7
      [] period = "month" -> date - 30
      [] period = "quarter" -> date - 90
      [] period = "year" -> StartOfYear(date)
      [] OTHER -> date - 30

\* getClassAnalytics and getStudentPracticeAnalytics: switch (period), the
\* default being 'month'
AnalyticsStart(period, date) ==
    CASE period = "week" -> date - 7
      [] period = "month" -> date - 30
      [] period = "quarter" -> date - 90
      [] OTHER -> date - 30

\* The period a response names: the token, or the default of the endpoint
PeriodOr(period, default) == IF period = "" THEN default ELSE period

\* The users: their role, their email, and the parentEmail of a student
ReportUsers == {"s1", "s2", "s3", "s4", "s5", "s6", "s7", "s8", "t1", "t2", "p1", "p2"}

RoleOf(user) ==
    CASE user \in {"t1", "t2"} -> "teacher"
      [] user \in {"p1", "p2"} -> "parent"
      [] OTHER -> "student"

EmailOf(user) == <<user, "@", "x">>

\* student.studentInfo?.parentEmail, as a set
ParentEmailOf(studentId) ==
    CASE studentId = "s1" -> {EmailOf("p1")}
      [] studentId = "s3" -> {EmailOf("p2")}
      [] OTHER -> {}

\* The class of t1 and a class of t2 with seven students
AnalyticsStudents == <<"s1", "s3", "s4", "s5", "s6", "s7", "s8">>

ReportClasses ==
    InitialClasses
    \o <<[teacherId |-> "t2",
          students |-> {AnalyticsStudents[i] : i \in DOMAIN AnalyticsStudents},
          classCode |-> {"B"}, maxStudents |-> DefaultMaxStudents, isActive |-> TRUE]>>

\* Class.find({ teacherId: userId, students: studentId })
ClassesOfTeacherWith(teacherId, studentId) ==
    {i \in 1..Len(classes) :
        classes[i].teacherId = teacherId /\ studentId \in classes[i].students}

\* Mutant: a teacher needs no class with the student
ReportAccessAnyTeacher(user, studentId) ==
    CASE RoleOf(user) = "parent" ->
             IF studentId \notin ReportUsers
                \/ ParentEmailOf(studentId) # {EmailOf(user)} THEN 403 ELSE 200
      [] RoleOf(user) = "student" -> IF studentId # user THEN 403 ELSE 200
      [] OTHER -> 200

\* getStudentProgressReport: the access check
ReportAccess(user, studentId) ==
    CASE RoleOf(user) = "parent" ->
             IF studentId \notin ReportUsers
                \/ ParentEmailOf(studentId) # {EmailOf(user)} THEN 403 ELSE 200
      [] RoleOf(user) = "student" -> IF studentId # user THEN 403 ELSE 200
      [] RoleOf(user) = "teacher" ->
             IF ClassesOfTeacherWith(user, studentId) = {} THEN 403 ELSE 200
      [] OTHER -> 200

\* An answer that carries the period and the date range
RangeBody(period, start, end) ==
    [period |-> period, dateRange |-> [start |-> start, end |-> end]]

\* { $sort: { totalPractices: -1 } }: every order the sort may return, rows
\* with equal totalPractices coming in any order
RECURSIVE SortedByTotalPractices(_)
SortedByTotalPractices(rows) ==
    IF rows = {} THEN {<<>>}
    ELSE LET firsts == {row \in rows :
                           \A other \in rows : other.totalPractices <= row.totalPractices}
         IN  UNION {{<<row>> \o rest : rest \in SortedByTotalPractices(rows \ {row})} :
                       row \in firsts}

\* The sessions a $match stage lets through: the student, the date range
\* and, where the stage names it, isActive: true
MatchedSessions(studentId, start, end, activeOnly) ==
    {i \in 1..Len(practices) :
        /\ practices[i].studentId = studentId
        /\ practices[i].date >= start /\ practices[i].date <= end
        /\ activeOnly => practices[i].isActive}

\* $sum over the sessions of a group
TotalTimeSpent(group) ==
    Sum([i \in 1..Len(practices) |-> IF i \in group THEN practices[i].timeSpent ELSE 0])

\* Practice.getStudentStats: $match on studentId and date, $group by type
GetStudentStats(studentId, start, end) ==
    LET matched == MatchedSessions(studentId, start, end, FALSE)
    IN  {LET group == {i \in matched : practices[i].type = type}
         IN  [_id |-> type, totalPractices |-> Cardinality(group),
              totalTimeSpent |-> TotalTimeSpent(group),
              completedPractices |->
                  Cardinality({i \in group : practices[i].isCompleted})] :
            type \in {practices[i].type : i \in matched}}

\* getPracticeStats: the $group by category of the active sessions
CategoryStats(studentId, start, end) ==
    LET matched == MatchedSessions(studentId, start, end, TRUE)
    IN  {LET group == {i \in matched : practices[i].category = category}
         IN  [_id |-> category, totalPractices |-> Cardinality(group),
              totalTimeSpent |-> TotalTimeSpent(group)] :
            category \in {practices[i].category : i \in matched}}

\* getPracticeStats: the $group by day of the active sessions, sorted by
\* year, month and day ascending, which is the order of the days
DailyActivity(studentId, start, end) ==
    LET matched == MatchedSessions(studentId, start, end, TRUE)
        days == {practices[i].date : i \in matched}
        Row(day) == LET group == {i \in matched : practices[i].date = day}
                    IN  [_id |-> day, practices |-> Cardinality(group),
                         totalTime |-> TotalTimeSpent(group)]
        DayAt(k) == CHOOSE day \in days :
                        Cardinality({other \in days : other < day}) = k - 1
    IN  [k \in 1..Cardinality(days) |-> Row(DayAt(k))]

\* res.json({ period, dateRange, stats, categoryStats, dailyActivity })
PracticeStatsBody(period, start, end, stats, categoryStats, dailyActivity) ==
    [period |-> period, dateRange |-> [start |-> start, end |-> end],
     stats |-> stats, categoryStats |-> categoryStats, dailyActivity |-> dailyActivity]

\* controllers: getPracticeStats (students only); thrown says whether
\* ObjectId, called without new while the pipelines are built, throws
GetPracticeStats(user, period, thrown) ==
    /\ \E categoryStats \in
           IF RoleOf(user) = "student" /\ ~thrown
           THEN SortedByTotalPractices(
                    CategoryStats(user, PracticeStatsStart(period, now), now))
           ELSE {<<>>} :
          last' = IF RoleOf(user) # "student"
                  THEN Response("getPracticeStats", user, 403, "", "", {})
                  ELSE IF thrown
                  THEN Response("getPracticeStats", user, 500, "", "", {})
                  ELSE Response("getPracticeStats", user, 200, "", "",
                           {PracticeStatsBody(
                                PeriodOr(period, "week"),
                                PracticeStatsStart(period, now), now,
                                GetStudentStats(user, PracticeStatsStart(period, now), now),
                                categoryStats,
                                DailyActivity(user, PracticeStatsStart(period, now), now))})
    /\ UNCHANGED <<assignment, media, practice, practices, classes, users, files,
                   uploads, report, reqs, now, submitted>>

\* controllers: getStudentProgressReport
GetStudentProgressReport(user, studentId, period, thrown) ==
    /\ last' = IF ReportAccess(user, studentId) # 200
               THEN Response("getStudentProgressReport", user, 403, "", studentId, {})
               ELSE IF thrown
               THEN Response("getStudentProgressReport", user, 500, "", studentId, {})
               ELSE Response("getStudentProgressReport", user, 200, "", studentId,
                             {RangeBody(PeriodOr(period, "month"),
                                        ProgressReportStart(period, now), now)})
    /\ UNCHANGED <<assignment, media, practice, practices, classes, users, files,
                   uploads, report, reqs, now, submitted>>

\* getStudentPracticeAnalytics: the status answered
PracticeAnalyticsStatus(user, studentId, classId, thrown) ==
    CASE RoleOf(user) # "teacher" -> 403
      [] \A classData \in FindClassById(classId) : classData.teacherId # user -> 403
      [] \A classData \in FindClassById(classId) : studentId \notin classData.students
            -> 400
      [] thrown -> 500
      [] OTHER -> 200

\* controllers: getStudentPracticeAnalytics (teachers only)
GetStudentPracticeAnalytics(user, studentId, classId, period, thrown) ==
    /\ last' = IF PracticeAnalyticsStatus(user, studentId, classId, thrown) # 200
               THEN Response("getStudentPracticeAnalytics", user,
                             PracticeAnalyticsStatus(user, studentId, classId, thrown),
                             "", studentId, {})
               ELSE Response("getStudentPracticeAnalytics", user, 200, "", studentId,
                             {RangeBody(PeriodOr(period, "month"),
                                        AnalyticsStart(period, now), now)})
    /\ UNCHANGED <<assignment, media, practice, practices, classes, users, files,
                   uploads, report, reqs, now, submitted>>

\* $match of the student engagement: the active sessions of the class
\* within the date range
EngagementSessions(classId, start, end) ==
    SelectSeq(practices,
              LAMBDA doc : /\ doc.classId = {classId}
                           /\ doc.date >= start /\ doc.date <= end
                           /\ doc.isActive)

\* $group by studentId, $lookup and $unwind of the user, $project: one row
\* per student, averageAccuracy being the ratio num / den
EngagementRows(sessions) ==
    {[studentId |-> studentId,
      totalPractices |-> Len(SelectSeq(sessions, LAMBDA doc : doc.studentId = studentId)),
      averageAccuracy |->
          [num |-> Sum([i \in 1..Len(sessions) |->
                           IF sessions[i].studentId = studentId
                           THEN sessions[i].accuracy ELSE 0]),
           den |-> Len(SelectSeq(sessions, LAMBDA doc : doc.studentId = studentId))],
      totalTimeSpent |-> Sum([i \in 1..Len(sessions) |->
                                IF sessions[i].studentId = studentId
                                THEN sessions[i].timeSpent ELSE 0])] :
        studentId \in {sessions[i].studentId : i \in 1..Len(sessions)} \cap ReportUsers}

\* list.slice(0, 5)
FirstFive(list) == SubSeq(list, 1, Min(TopCount, Len(list)))

\* Mutant: only the accuracy decides
StrugglingByAccuracy(studentEngagement) ==
    FirstFive(SelectSeq(studentEngagement,
                        LAMBDA student :
                            student.averageAccuracy.num < 60 * student.averageAccuracy.den))

\* classStats[2].filter(student => student.averageAccuracy < 60 ||
\* student.totalPractices < 3).slice(0, 5)
StrugglingStudents(studentEngagement) ==
    FirstFive(SelectSeq(studentEngagement,
                        LAMBDA student :
                            \/ student.averageAccuracy.num < 60 * student.averageAccuracy.den
                            \/ student.totalPractices < 3))

\* getClassAnalytics: the status answered
ClassAnalyticsStatus(user, classId, thrown) ==
    CASE RoleOf(user) # "teacher" -> 403
      [] \A classData \in FindClassById(classId) : classData.teacherId # user -> 403
      [] thrown -> 500
      [] OTHER -> 200

\* controllers: getClassAnalytics (teachers only)
GetClassAnalytics(user, classId, period, thrown) ==
    /\ IF ClassAnalyticsStatus(user, classId, thrown) # 200
       THEN last' = Response("getClassAnalytics", user,
                             ClassAnalyticsStatus(user, classId, thrown), "", "", {})
       ELSE \E studentEngagement \in
                   SortedByTotalPractices(EngagementRows(
                       EngagementSessions(classId, AnalyticsStart(period, now), now))) :
               last' = Response("getClassAnalytics", user, 200, "", "",
                                {[period |-> PeriodOr(period, "month"),
                                  dateRange |-> [start |-> AnalyticsStart(period, now),
                                                 end |-> now],
                                  studentEngagement |-> studentEngagement,
                                  topPerformers |-> FirstFive(studentEngagement),
                                  strugglingStudents |->
                                      StrugglingStudents(studentEngagement)]})
    /\ UNCHANGED <<assignment, media, practice, practices, classes, users, files,
                   uploads, report, reqs, now, submitted>>

\* A stored session of a class, saved on the given day
ClassSession(studentId, classId, accuracy, date, isActive) ==
    [SavedPractice(studentId,
                   PracticeBody("writing", "general", <<"a">>, <<>>, {accuracy}, {20}, {}, {}, {classId}),
                   date)
        EXCEPT !.isActive = isActive]

\* How many sessions each of the seven students of the class of t2 has
SessionCounts ==
    { <<10, 2, 8, 1, 0, 0, 0>>, <<7, 6, 5, 4, 3, 2, 1>>, <<7, 6, 5, 4, 3, 3, 1>>,
      <<3, 3, 1, 0, 0, 0, 0>>, <<0, 0, 0, 0, 0, 0, 0>> }

\* The accuracy of session k of student i
AccuracyPatterns == {"high", "low", "mixed", "edge"}

PatternAccuracy(pattern, i, k) ==
    CASE pattern = "high" -> 90
      [] pattern = "low" -> 50
      [] pattern = "mixed" -> IF i % 2 = 1 THEN 50 ELSE 90
      [] OTHER -> IF k % 2 = 1 THEN 50 ELSE 70

\* The day of session k of student i: the first sessions of the first student
\* are older than a year, a quarter, a month and a week before day 400
SessionDate(i, k) ==
    IF i = 1 /\ k <= 4 THEN <<100, 330, 367, 380>>[k] ELSE 395

\* The sessions of students i..7, student by student
RECURSIVE SessionsFrom(_, _, _)
SessionsFrom(i, counts, pattern) ==
    IF i > Len(counts) THEN <<>>
    ELSE [k \in 1..counts[i] |->
             ClassSession(AnalyticsStudents[i], 2, PatternAccuracy(pattern, i, k),
                          SessionDate(i, k), TRUE)]
         \o SessionsFrom(i + 1, counts, pattern)

\* Practice collections: a deleted session and a session of the other class
\* next to the sessions of the class of t2
StoredSessions ==
    {<<ClassSession("s1", 2, 10, 395, FALSE), ClassSession("s2", 1, 10, 395, TRUE)>>
         \o SessionsFrom(1, counts, pattern) :
        counts \in SessionCounts, pattern \in AccuracyPatterns}

ReportClocks == {400, 420}

InitReport ==
    /\ assignment = NoAssignment
    /\ media = NoMedia
    /\ practice = NoPractice
    /\ practices \in StoredSessions
    /\ classes = ReportClasses
    /\ users = EnrolledIn(ReportClasses)
    /\ files = NoFiles
    /\ uploads = NoUploads
    /\ report = NoReport
    /\ reqs = NoRequests
    /\ now \in ReportClocks
    /\ submitted = NoneSubmitted
    /\ last = NoResponse

NextReport ==
    \/ \E user \in {"s1", "t1"}, period \in Periods, thrown \in BOOLEAN :
          GetPracticeStats(user, period, thrown)
    \/ \E user \in {"s1", "s2", "t1", "t2", "p1", "p2"}, studentId \in {"s1", "s2", "s9"},
          period \in Periods, thrown \in BOOLEAN :
          GetStudentProgressReport(user, studentId, period, thrown)
    \/ \E user \in {"t1", "t2", "s1"}, studentId \in {"s1", "s2"}, classId \in {1, 2, 3},
          period \in Periods, thrown \in BOOLEAN :
          GetStudentPracticeAnalytics(user, studentId, classId, period, thrown)
    \/ \E user \in {"t1", "t2", "s1"}, classId \in {1, 2, 3}, period \in Periods,
          thrown \in BOOLEAN :
          GetClassAnalytics(user, classId, period, thrown)

SpecReport == InitReport /\ [][NextReport]_vars

\* C17: in every endpoint that takes a period (practice stats, student
\* progress report, class analytics, student practice analytics), period
\* 'year' resolves the date range to [first day of the current calendar
\* year, now] and period 'quarter' to [now - 90 days, now].
C17_YearAndQuarterWindows ==
    (/\ last.op \in {"getPracticeStats", "getStudentProgressReport",
                    "getClassAnalytics", "getStudentPracticeAnalytics"}
     /\ last.status = 200) =>
        \A answer \in last.body :
            /\ answer.period = "year" =>
                  answer.dateRange = [start |-> StartOfYear(now), end |-> now]
            /\ answer.period = "quarter" =>
                  answer.dateRange = [start |-> now - 90, end |-> now]

\* averageAccuracy < 60 || totalPractices < 3 of an engagement row
Qualifies(student) ==
    \/ student.averageAccuracy.num < 60 * student.averageAccuracy.den
    \/ student.totalPractices < 3

\* C18: getClassAnalytics returns studentEngagement ordered by
\* totalPractices descending; topPerformers is its first 5 entries (all of
\* them when fewer); strugglingStudents is the first 5, in the same order, of
\* the entries with averageAccuracy < 60 or totalPractices < 3, so an entry
\* with fewer than 3 practices qualifies whatever its accuracy (and is
\* listed whenever no more than 5 entries qualify), and entries of
\* topPerformers are not left out of it.
C18_EngagementLists ==
    (last.op = "getClassAnalytics" /\ last.status = 200) =>
        \A answer \in last.body :
            LET all == answer.studentEngagement
                top == answer.topPerformers
                low == answer.strugglingStudents
                qualifying == {i \in 1..Len(all) : Qualifies(all[i])}
                Nth(k) == CHOOSE i \in qualifying :
                              Cardinality({j \in qualifying : j <= i}) = k
            IN  /\ \A i, j \in 1..Len(all) :
                      i < j => all[i].totalPractices >= all[j].totalPractices
                /\ Len(top) = Min(5, Len(all))
                /\ \A i \in 1..Len(top) : top[i] = all[i]
                /\ Len(low) = Min(5, Cardinality(qualifying))
                /\ \A k \in 1..Len(low) : low[k] = all[Nth(k)]
                /\ Cardinality(qualifying) <= 5 =>
                      \A i \in 1..Len(all) :
                          all[i].totalPractices < 3 =>
                              \E k \in 1..Len(low) : low[k] = all[i]

\* Seven students are listed; five of them are struggling, one of these with
\* two practices at an average of 90, another one being a top performer
C18_Witness ==
    /\ last.op = "getClassAnalytics" /\ last.status = 200
    /\ \E answer \in last.body :
          /\ Len(answer.studentEngagement) = 7
          /\ Len(answer.topPerformers) = 5
          /\ Len(answer.strugglingStudents) = 5
          /\ \E k \in 1..5 :
                /\ answer.strugglingStudents[k].totalPractices = 2
                /\ answer.strugglingStudents[k].averageAccuracy = [num |-> 180, den |-> 2]
          /\ \E k, i \in 1..5 : answer.strugglingStudents[k] = answer.topPerformers[i]
          /\ \E i \in 1..7 : ~Qualifies(answer.studentEngagement[i])

\* The requester is the student, a parent whose email is the student's
\* parentEmail, or a teacher of a class with the student
MayReadReport(user, studentId) ==
    \/ RoleOf(user) = "student" /\ user = studentId
    \/ RoleOf(user) = "parent" /\ studentId \in ReportUsers
          /\ ParentEmailOf(studentId) = {EmailOf(user)}
    \/ RoleOf(user) = "teacher"
          /\ \E i \in 1..Len(classes) :
                classes[i].teacherId = user /\ studentId \in classes[i].students

\* C20: getStudentProgressReport returns report data only when the requester
\* is the student themself, a parent whose email equals the student's
\* parentEmail, or a teacher of at least one class whose students include
\* the student; every other request by a student, parent or teacher is
\* answered 403 without report data.
C20_ReportAccess ==
    (last.op = "getStudentProgressReport") =>
        /\ last.body # {} => MayReadReport(last.user, last.studentId)
        /\ ~MayReadReport(last.user, last.studentId) =>
              last.status = 403 /\ last.body = {}

\* Parent p1 was given the report of their child s1
C20_Witness ==
    /\ last.op = "getStudentProgressReport" /\ last.user = "p1"
    /\ last.studentId = "s1" /\ last.status = 200
    /\ \E answer \in last.body : answer.dateRange.end = now


\* start is the first day of the calendar month of date
IsFirstOfMonth(start, date) ==
    /\ start <= date
    /\ start % YearDays \in MonthStarts
    /\ start - (start % YearDays) = date - (date % YearDays)
    /\ \A day \in (start + 1)..date : day % YearDays \notin MonthStarts

\* C21: period 'month' resolves to [now - 30 days, now] in the student
\* progress report and the class analytics and to [first day of the current
\* calendar month, now] in getPracticeStats; a request without period is
\* answered as 'month' by the report endpoints and as 'week', [now - 7 days,
\* now], by getPracticeStats; the start of a window is never after now.
C21_MonthAndDefaultWindows ==
    /\ []((/\ last.op \in {"getPracticeStats", "getStudentProgressReport",
                          "getClassAnalytics"}
           /\ last.status = 200) =>
              \A answer \in last.body :
                  /\ answer.dateRange.end = now
                  /\ answer.dateRange.start <= now
                  /\ (answer.period = "month" /\ last.op # "getPracticeStats") =>
                        answer.dateRange.start = now - 30
                  /\ (answer.period = "month" /\ last.op = "getPracticeStats") =>
                        IsFirstOfMonth(answer.dateRange.start, now)
                  /\ (answer.period = "week" /\ last.op = "getPracticeStats") =>
                        answer.dateRange.start = now - 7)
    /\ [][/\ (last'.op = "getPracticeStats" /\ last'.status = 200
                /\ GetPracticeStats(last'.user, "", FALSE)) =>
                    \A answer \in last'.body :
                        answer.period = "week" /\ answer.dateRange.start = now - 7
          /\ (last'.op = "getStudentProgressReport" /\ last'.status = 200
                /\ GetStudentProgressReport(last'.user, last'.studentId, "", FALSE)) =>
                    \A answer \in last'.body :
                        answer.period = "month" /\ answer.dateRange.start = now - 30
          /\ \A classId \in 1..Len(classes) :
                (last'.op = "getClassAnalytics" /\ last'.status = 200
                    /\ GetClassAnalytics(last'.user, classId, "", FALSE)) =>
                    \A answer \in last'.body :
                        answer.period = "month" /\ answer.dateRange.start = now - 30]_vars

\* On day 420 student s1 was given the practice stats of the month, which
\* start on day 396, not on day 390
C21_Witness ==
    /\ last.op = "getPracticeStats" /\ last.status = 200 /\ now = 420
    /\ \E answer \in last.body :
          /\ answer.period = "month"
          /\ answer.dateRange = [start |-> 396, end |-> 420]

----------------------------------------------------------------------------
(* Uploads: the routes POST /upload/video, /upload/image and               *)
(* /upload/document run uploadSingle (multer writes the file), cleanupFiles *)
(* (res.send deletes the file when the status is 400 or more), the          *)
(* validation rules and uploadMedia.                                        *)

MaxUploads == 2

\* The MIME types a request may carry, type/subtype as <<type, subtype>>;
\* fileFilter allows the first four
MimeTypes ==
    {<<"video", "mp4">>, <<"image", "png">>, <<"application", "pdf">>,
     <<"text", "plain">>, <<"audio", "mpeg">>}

\* file.mimetype.startsWith(type + '/')
StartsWith(mimetype, type) == mimetype[1] = type

\* fileFilter: allowedTypes[file.mimetype]
FileFilter(mimetype) ==
    mimetype \in {<<"video", "mp4">>, <<"image", "png">>, <<"application", "pdf">>,
                  <<"text", "plain">>}

\* storage.destination: the directory the file is written to
Destination(mimetype) ==
    IF StartsWith(mimetype, "video") THEN "uploads/videos/"
    ELSE IF StartsWith(mimetype, "image") THEN "uploads/images/"
    ELSE "uploads/documents/"

\* storage.filename within the directory: uniqueSuffix tells the files apart
FilePath(mimetype, uniqueSuffix) ==
    [directory |-> Destination(mimetype), uniqueSuffix |-> uniqueSuffix]

\* The suffixes no stored file and no Media document has
FreshSuffixes ==
    (1..MaxUploads) \ ({path.uniqueSuffix : path \in files}
                          \cup {uploads[i].filePath.uniqueSuffix : i \in 1..Len(uploads)})

\* uploadMedia: let type = 'video'; if image/ ... else if audio/ ... else
\* type = 'document'
MediaType(mimetype) ==
    IF StartsWith(mimetype, "image") THEN "image"
    ELSE IF StartsWith(mimetype, "audio") THEN "audio"
    ELSE "document"

\* new Media({ filePath, mimeType, type, classId, uploadedBy, ... });
\* inVideos tells whether the videos list of the class holds the document
NewMedia(filePath, mimetype, classId, uploadedBy) ==
    [filePath |-> filePath, mimeType |-> mimetype, type |-> MediaType(mimetype),
     classId |-> classId, uploadedBy |-> uploadedBy, inVideos |-> FALSE]

\* The calls of uploadMedia that may reject: Class.findById, media.save(),
\* Class.findByIdAndUpdate and media.populate
UploadCalls == <<"findById", "save", "findByIdAndUpdate", "populate">>

\* Whether the call resolves once the handler has passed its checks, thrown
\* being the call that rejects ("none" when all resolve)
Resolves(call, thrown) ==
    \/ thrown = "none"
    \/ \E i, j \in 1..Len(UploadCalls) :
          UploadCalls[i] = call /\ UploadCalls[j] = thrown /\ i < j

\* uploadMedia: the status answered to a request that carries a file
UploadStatus(user, validBody, classId, thrown) ==
    CASE ~validBody -> 400
      [] thrown = "findById" -> 500
      [] FindClassById(classId) = {} -> 404
      [] \A classData \in FindClassById(classId) : classData.teacherId # user -> 403
      [] thrown # "none" -> 500
      [] OTHER -> 201

\* cleanupFiles (res.send) and the catch block of uploadMedia: the file of
\* the request is deleted when the status is 400 or more
DeletedOnError(paths, path, status) ==
    IF status >= 400 THEN paths \ {path} ELSE paths

\* A request that uploadSingle answers itself: fileFilter refuses the type
\* and no file is written
UploadRefused(user, mimetype) ==
    /\ ~FileFilter(mimetype)
    /\ last' = Response("uploadSingle", user, 400, "", "", {[mimetype |-> mimetype]})
    /\ UNCHANGED <<assignment, media, practice, practices, classes, users, files,
                   uploads, report, reqs, now, submitted>>

\* A request without file: the validation rules, then 'No file uploaded'
UploadWithoutFile(user) ==
    /\ last' = Response("uploadMedia", user, 400, "", "", {})
    /\ UNCHANGED <<assignment, media, practice, practices, classes, users, files,
                   uploads, report, reqs, now, submitted>>

\* router.post('/upload/...'): uploadSingle writes the file, then
\* cleanupFiles, the validation rules and uploadMedia
UploadMedia(user, mimetype, uniqueSuffix, validBody, classId, thrown) ==
    /\ FileFilter(mimetype)
    /\ uniqueSuffix \in FreshSuffixes
    /\ LET path == FilePath(mimetype, uniqueSuffix)
           status == UploadStatus(user, validBody, classId, thrown)
           saved == status \in {201, 500} /\ Resolves("save", thrown)
           listed == Resolves("findByIdAndUpdate", thrown)
       IN  /\ files' = DeletedOnError(files \cup {path}, path, status)
           /\ uploads' = IF saved
                         THEN Append(uploads,
                                     [NewMedia(path, mimetype, classId, user)
                                         EXCEPT !.inVideos = listed])
                         ELSE uploads
           /\ last' = Response("uploadMedia", user, status, "", "",
                               {[path |-> path, mimetype |-> mimetype]})
    /\ UNCHANGED <<assignment, media, practice, practices, classes, users, report,
                   reqs, now, submitted>>

InitUpload ==
    /\ assignment = NoAssignment
    /\ media = NoMedia
    /\ practice = NoPractice
    /\ practices = NoPractices
    /\ classes = InitialClasses
    /\ users = EnrolledIn(InitialClasses)
    /\ files = NoFiles
    /\ uploads = NoUploads
    /\ report = NoReport
    /\ reqs = NoRequests
    /\ now = 0
    /\ submitted = NoneSubmitted
    /\ last = NoResponse

NextUpload ==
    \/ \E user \in Teachers, mimetype \in MimeTypes : UploadRefused(user, mimetype)
    \/ \E user \in Teachers : UploadWithoutFile(user)
    \/ \E user \in Teachers, mimetype \in MimeTypes, uniqueSuffix \in 1..MaxUploads,
          validBody \in BOOLEAN, classId \in {1, 5},
          thrown \in {"none"} \cup {UploadCalls[i] : i \in 1..Len(UploadCalls)} :
          UploadMedia(user, mimetype, uniqueSuffix, validBody, classId, thrown)

SpecUpload == InitUpload /\ [][NextUpload]_vars

\* C22: whenever an uploadMedia request is answered with a status of 400 or
\* more, the file the upload stored is deleted, and no Media document the
\* request created remains pointing to the deleted file.
C22_ErrorLeavesNoFileAndNoRecord ==
    (last.op = "uploadMedia" /\ last.status >= 400) =>
        \A upload \in last.body :
            /\ upload.path \notin files
            /\ \A i \in 1..Len(uploads) : uploads[i].filePath # upload.path

\* The type the MIME type of a file calls for
TypeOfMime(mimetype) ==
    CASE mimetype[1] = "video" -> "video"
      [] mimetype[1] = "image" -> "image"
      [] mimetype[1] = "audio" -> "audio"
      [] OTHER -> "document"

\* C30: uploadMedia stores the media type of the MIME type of the file:
\* 'video' for video/*, 'image' for image/*, 'audio' for audio/* and
\* 'document' for every other allowed type.
C30_TypeFollowsMimeType ==
    \A i \in 1..Len(uploads) : uploads[i].type = TypeOfMime(uploads[i].mimeType)

\* C23: after the automatic grading of submitAssignment the stored score is
\* at most the totalPoints of the assignment and the stored percentage lies
\* within 0..100, whatever the list of answers, lists with several answers
\* for one questionId included.
C23_ScoreWithinTotalPoints ==
    (last.op = "submitAssignment" /\ last.status = 200) =>
        \A i \in 1..Len(assignment.submissions) :
            /\ assignment.submissions[i].score <= assignment.totalPoints
            /\ assignment.submissions[i].percentage >= 0
            /\ assignment.submissions[i].percentage <= 100

\* C24: when submitAssignment requests of different students on one
\* assignment interleave, no successful submission is lost: a request that
\* is answered with success has stored its submission and has left the
\* submissions of every other student as they were, a request that is not
\* leaves the assignment unchanged, so that after two students were both
\* answered with success the assignment holds a submission of each.
C24_NoSuccessfulSubmissionLost ==
    /\ [](\A s \in Students :
             submitted[s] >= 1 => EntriesOf(assignment.submissions, s) # <<>>)
    /\ [][\A r \in RequestIds :
             (reqs[r].pc = "loaded" /\ reqs'[r].pc = "done") =>
                 IF last'.status = 200
                 THEN LET mine == EntriesOf(assignment'.submissions, reqs[r].studentId)
                          given == SanitizedAnswers(BodyOf(r))
                      IN  /\ mine # <<>>
                          /\ Len(mine[Len(mine)].answers) = Len(given)
                          /\ \A i \in 1..Len(given) :
                                /\ mine[Len(mine)].answers[i].questionId =
                                       given[i].questionId
                                /\ mine[Len(mine)].answers[i].answer = given[i].answer
                          /\ \A s \in Students \ {reqs[r].studentId} :
                                EntriesOf(assignment'.submissions, s) =
                                    EntriesOf(assignment.submissions, s)
                 ELSE assignment' = assignment]_vars

\* The requests of s1 and s2 both loaded the assignment before it had a
\* submission, both were answered with success, and it holds one of each
C24_Witness ==
    /\ reqs["r1"].pc = "done" /\ reqs["r1"].studentId = "s1"
    /\ reqs["r2"].pc = "done" /\ reqs["r2"].studentId = "s2"
    /\ reqs["r3"].pc = "idle"
    /\ \A r \in {"r1", "r2"} : \A copy \in reqs[r].copy : copy.submissions = <<>>
    /\ reqs["r1"].copy # {} /\ reqs["r2"].copy # {}
    /\ submitted["s1"] = 1 /\ submitted["s2"] = 1
    /\ Len(EntriesOf(assignment.submissions, "s1")) = 1
    /\ Len(EntriesOf(assignment.submissions, "s2")) = 1

----------------------------------------------------------------------------
(* Resubmission after a manual grade: the assignment holds a submission of *)
(* s1 that the class teacher has graded; each student then submits at most *)
(* once more while the teacher goes on grading.                            *)

\* The assignments after s1 has submitted and the class teacher has graded
GradedAssignments ==
    UNION {{GradeAssignmentMethod(
                SubmitAssignmentMethod(doc, "s1", SanitizedAnswers(answers)),
                "s1", 3, {"well done"}, ClassTeacher, 0).doc :
               answers \in {as \in RequestAnswers :
                               SubmitStatus(doc, "s1", as, 0) = 200}} :
           doc \in CreatedAssignments}

InitRegrade ==
    /\ assignment \in GradedAssignments
    /\ media = NoMedia
    /\ practice = NoPractice
    /\ practices = NoPractices
    /\ classes = InitialClasses
    /\ users = EnrolledIn(InitialClasses)
    /\ files = NoFiles
    /\ uploads = NoUploads
    /\ report = NoReport
    /\ reqs = NoRequests
    /\ now = 0
    /\ submitted = [NoneSubmitted EXCEPT !["s1"] = 1]
    /\ last = NoResponse

NextRegrade ==
    \/ \E studentId \in Students, answers \in RequestAnswers :
          /\ submitted[studentId] < 2
          /\ SubmitAssignment(studentId, answers)
    \/ GradeRequest
    \/ Tick

SpecRegrade == InitRegrade /\ [][NextRegrade]_vars

\* C28: a resubmission by a student whose submission was manually graded
\* replaces it with a fresh submission without feedback, gradedAt and
\* gradedBy, whose score and percentage are those of the automatic grading;
\* a later gradeAssignment applies to the new submission.
C28_ResubmissionDropsManualGrade ==
    /\ [][(/\ IsRequest("submitAssignment") /\ last'.status = 200
           /\ \E i \in 1..Len(assignment.submissions) :
                 /\ assignment.submissions[i].studentId = last'.studentId
                 /\ assignment.submissions[i].gradedAt # {}) =>
              LET given == SanitizedAnswers(CHOOSE b \in last'.body : TRUE)
                  new == EntriesOf(assignment'.submissions, last'.studentId)
                  auto == Sum([i \in 1..Len(given) |->
                                  PointsFor(assignment.questions, given[i])])
              IN  /\ Len(new) = 1
                  /\ new[1].feedback = {} /\ new[1].gradedAt = {}
                  /\ new[1].gradedBy = {}
                  /\ new[1].score = auto
                  /\ IF assignment.totalPoints = 0 THEN new[1].percentage = 0
                     ELSE IsNearestPercent(new[1].percentage, auto,
                                           assignment.totalPoints)
                  /\ Len(new[1].answers) = Len(given)
                  /\ \A i \in 1..Len(given) :
                        new[1].answers[i].answer = given[i].answer]_vars
    /\ [][(IsRequest("gradeAssignment") /\ last'.status = 200) =>
              LET old == EntriesOf(assignment.submissions, last'.studentId)
                  new == EntriesOf(assignment'.submissions, last'.studentId)
              IN  /\ Len(old) = 1 /\ Len(new) = 1
                  /\ new[1].answers = old[1].answers
                  /\ new[1].gradedAt = {now}
                  /\ \A given \in last'.body : new[1].score = given.score]_vars

\* s1, graded 3 with feedback, has submitted again: the stored submission is
\* the automatically graded one, worth less than 3, without grade fields
C28_Witness ==
    /\ last.op = "submitAssignment" /\ last.status = 200 /\ last.studentId = "s1"
    /\ submitted["s1"] = 2
    /\ \E i \in 1..Len(assignment.submissions) :
          /\ assignment.submissions[i].studentId = "s1"
          /\ assignment.submissions[i].score < 3
          /\ assignment.submissions[i].feedback = {}
          /\ assignment.submissions[i].gradedAt = {}
          /\ assignment.submissions[i].gradedBy = {}

\* C29: submitAssignment refuses with 400, leaving the submissions as they
\* were, a submission after the dueDate when allowLateSubmission is false
\* and a submission with an empty answers list; it refuses with 403,
\* changing nothing, a student who is not enrolled in the class of the
\* assignment; a submission after the dueDate with allowLateSubmission true
\* is accepted and graded without penalty.
C29_SubmitRefusals ==
    [][(IsRequest("submitAssignment") /\ assignment.exists) =>
          LET answers == CHOOSE b \in last'.body : TRUE
              enrolled == \E i \in 1..Len(classes) :
                              last'.studentId \in classes[i].students
              late == now > assignment.dueDate
              auto == Sum([i \in 1..Len(answers) |->
                              PointsFor(assignment.questions,
                                        SanitizedAnswers(answers)[i])])
          IN  /\ answers = <<>> => last'.status = 400
              /\ (ValidAnswers(answers) /\ ~enrolled) => last'.status = 403
              /\ (ValidAnswers(answers) /\ enrolled /\ late
                    /\ ~assignment.allowLateSubmission) => last'.status = 400
              /\ last'.status \in {400, 403} => assignment' = assignment
              /\ (ValidAnswers(answers) /\ enrolled /\ late
                    /\ assignment.allowLateSubmission) =>
                    /\ last'.status =
                           IF SubmitThrows(assignment.questions,
                                           SanitizedAnswers(answers))
                           THEN 500 ELSE 200
                    /\ last'.status = 200 =>
                          LET new == EntriesOf(assignment'.submissions,
                                               last'.studentId)
                          IN  /\ Len(new) = 1
                              /\ new[1].score = auto
                              /\ IF assignment.totalPoints = 0
                                 THEN new[1].percentage = 0
                                 ELSE IsNearestPercent(new[1].percentage, auto,
                                                       assignment.totalPoints)]_vars

\* After the teacher graded s2 on day 1, past the due date, s1 submitted a
\* correct answer and was given the point of its question
C29_Witness ==
    /\ last.op = "submitAssignment" /\ last.status = 200 /\ last.studentId = "s1"
    /\ assignment.allowLateSubmission /\ assignment.dueDate = 0
    /\ \E i, j \in 1..Len(assignment.submissions) :
          /\ assignment.submissions[i].studentId = "s2"
          /\ assignment.submissions[i].gradedAt = {1}
          /\ assignment.submissions[j].studentId = "s1"
          /\ assignment.submissions[j].score = 1
          /\ assignment.submissions[j].percentage > 0
-----------------------------------------------------------------------------
(* The rollups of getPracticeStats, with sessions saved and deleted between
   the requests *)

NextStats ==
    \/ \E request \in SaveRequests : SavePractice(request.user, request.body)
    \/ \E user \in {"s1", "s2"}, practiceId \in 1..MaxPractices :
          DeletePractice(user, practiceId)
    \/ \E user \in {"s1", "t1"}, period \in Periods, thrown \in BOOLEAN :
          GetPracticeStats(user, period, thrown)
    \/ Tick

SpecStats == InitPractice /\ [][NextStats]_vars

\* The sum of totalPractices over the rows by type of an answer
TotalByType(stats) ==
    LET types == <<"writing", "typing", "drawing">>
    IN  Sum([k \in 1..Len(types) |->
                IF \E row \in stats : row._id = types[k]
                THEN (CHOOSE row \in stats : row._id = types[k]).totalPractices
                ELSE 0])

\* C27: in an answer of getPracticeStats the rows by type, by category and
\* by day count the same sessions, the sessions of the student within the
\* date range that deletePractice has not removed: the three sums of the
\* counts are equal, and equal to the number of those sessions.
C27_RollupsOverSameSessions ==
    (last.op = "getPracticeStats" /\ last.status = 200) =>
        \A answer \in last.body :
            LET kept == MatchedSessions(last.user, answer.dateRange.start,
                                        answer.dateRange.end, TRUE)
                byCategory == Sum([k \in 1..Len(answer.categoryStats) |->
                                      answer.categoryStats[k].totalPractices])
                byDay == Sum([k \in 1..Len(answer.dailyActivity) |->
                                 answer.dailyActivity[k].practices])
            IN  /\ TotalByType(answer.stats) = Cardinality(kept)
                /\ byCategory = Cardinality(kept)
                /\ byDay = Cardinality(kept)

-----------------------------------------------------------------------------
(* Enrolment: joinClassByCode, addStudentToClass, removeStudentFromClass,
   updateClass and deleteClass as the requests of several clients, each
   advancing from one awaited call to the next.  students is kept as a set:
   a second enrolment of a student starts once the first has been answered. *)

\* The requests in flight at a time
EnrolRequestIds == {"r1", "r2"}

\* One class of t1 with one place left
EnrolClasses ==
    <<[teacherId |-> "t1", students |-> {"s1"}, classCode |-> {"A"},
       maxStudents |-> 2, isActive |-> TRUE]>>

\* body('maxStudents').optional().isInt({ min: 1, max: 100 }), as a set
MaxStudentsInputs == {{}, {1}, {3}}

\* A request that holds a loaded class: the class id in body, the document
\* in copy
LoadedRequest(pc, studentId, classId) ==
    [pc |-> pc, studentId |-> studentId, body |-> {classId},
     copy |-> {classes[classId]}, stale |-> FALSE]

\* No other request is about to enrol the student
NotEnrolling(r, studentId) ==
    \A q \in RequestIds \ {r} :
        reqs[q].pc \in {"join-loaded", "add-loaded", "join-saved", "add-saved"}
            => reqs[q].studentId # studentId

\* An awaited call of a handler has resolved; nothing is answered yet
Awaited(user, studentId, classId) ==
    Response("await", user, 0, "", studentId, {classId})

\* isClassTeacher: Class.findById, 404 without the class, 403 for another
\* teacher
IsClassTeacherStatus(user, classId) ==
    IF FindClassById(classId) = {} THEN 404
    ELSE IF classes[classId].teacherId # user THEN 403
    ELSE 200

\* The requests after request r wrote the students of its class: the other
\* requests that hold the class have an outdated __v
AfterClassSave(r, pc) ==
    [q \in RequestIds |->
        IF q = r THEN [reqs[q] EXCEPT !.pc = pc]
        ELSE IF reqs[q].pc # "idle" /\ reqs[q].body = reqs[r].body
        THEN [reqs[q] EXCEPT !.stale = TRUE]
        ELSE reqs[q]]

\* joinClassByCode from Class.findOne to the checks on the class found
JoinLoad(r, studentId, classCode) ==
    /\ reqs[r].pc = "idle"
    /\ NotEnrolling(r, studentId)
    /\ LET status == JoinClassStatus(studentId, classCode)
           classId == CHOOSE i \in 1..Len(classes) : classes[i].classCode = {classCode}
       IN  IF status = 200
           THEN /\ reqs' = [reqs EXCEPT ![r] = LoadedRequest("join-loaded", studentId,
                                                             classId)]
                /\ last' = Awaited(studentId, studentId, classId)
           ELSE /\ reqs' = reqs
                /\ last' = Response("joinClassByCode", studentId, status, "", studentId,
                                    {classCode})
    /\ UNCHANGED <<assignment, media, practice, practices, classes, users, files,
                   uploads, report, now, submitted>>

\* addStudentToClass: the status answered on req.classData
AddStudentStatus(user, classId, studentId) ==
    IF IsClassTeacherStatus(user, classId) # 200 THEN IsClassTeacherStatus(user, classId)
    ELSE IF studentId \notin Students THEN 404
    ELSE IF studentId \in classes[classId].students THEN 400
    ELSE IF Cardinality(classes[classId].students) >= classes[classId].maxStudents THEN 400
    ELSE 200

\* addStudentToClass from isClassTeacher to the checks on req.classData
AddLoad(r, user, classId, studentId) ==
    /\ reqs[r].pc = "idle"
    /\ NotEnrolling(r, studentId)
    /\ LET status == AddStudentStatus(user, classId, studentId)
       IN  IF status = 200
           THEN /\ reqs' = [reqs EXCEPT ![r] = LoadedRequest("add-loaded", studentId,
                                                             classId)]
                /\ last' = Awaited(user, studentId, classId)
           ELSE /\ reqs' = reqs
                /\ last' = Response("addStudentToClass", user, status, "", studentId,
                                    {classId})
    /\ UNCHANGED <<assignment, media, practice, practices, classes, users, files,
                   uploads, report, now, submitted>>

\* The handler a request in flight belongs to
HandlerOf(r) ==
    CASE reqs[r].pc \in {"join-loaded", "join-saved"} -> "joinClassByCode"
      [] reqs[r].pc \in {"add-loaded", "add-saved"} -> "addStudentToClass"
      [] reqs[r].pc \in {"remove-loaded", "remove-saved"} -> "removeStudentFromClass"
      [] OTHER -> "deleteClass"

\* req.user of a request in flight: the student who joins, the teacher of
\* the class otherwise
UserOf(r) ==
    IF HandlerOf(r) = "joinClassByCode" THEN reqs[r].studentId ELSE CopyOf(r).teacherId

\* classData.addStudent: the push goes out as $push and the version is
\* incremented; the save of a class that is gone rejects, which the catch
\* answers with 500
EnrolSave(r) ==
    /\ reqs[r].pc \in {"join-loaded", "add-loaded"}
    /\ LET classId == BodyOf(r)
       IN  IF FindClassById(classId) = {}
           THEN /\ classes' = classes
                /\ reqs' = [reqs EXCEPT ![r] = IdleRequest]
                /\ last' = Response(HandlerOf(r), UserOf(r), 500, "", reqs[r].studentId,
                                    {classId})
           ELSE /\ classes' = [classes EXCEPT ![classId] = AddStudent(@, reqs[r].studentId)]
                /\ reqs' = AfterClassSave(r, IF reqs[r].pc = "join-loaded"
                                             THEN "join-saved" ELSE "add-saved")
                /\ last' = Awaited(UserOf(r), reqs[r].studentId, classId)
    /\ UNCHANGED <<assignment, media, practice, practices, users, files, uploads,
                   report, now, submitted>>

\* User.findByIdAndUpdate with $addToSet on studentInfo.classIds, then the
\* answer
EnrolLink(r) ==
    /\ reqs[r].pc \in {"join-saved", "add-saved"}
    /\ users' = [users EXCEPT ![reqs[r].studentId] = @ \cup reqs[r].body]
    /\ reqs' = [reqs EXCEPT ![r] = IdleRequest]
    /\ last' = Response(HandlerOf(r), UserOf(r), 200, "", reqs[r].studentId, reqs[r].body)
    /\ UNCHANGED <<assignment, media, practice, practices, classes, files, uploads,
                   report, now, submitted>>

\* removeStudentFromClass: the status answered on req.classData
RemoveStudentStatus(user, classId, studentId) ==
    IF IsClassTeacherStatus(user, classId) # 200 THEN IsClassTeacherStatus(user, classId)
    ELSE IF studentId \notin classes[classId].students THEN 400
    ELSE 200

\* removeStudentFromClass from isClassTeacher to the check on req.classData
RemoveLoad(r, user, classId, studentId) ==
    /\ reqs[r].pc = "idle"
    /\ LET status == RemoveStudentStatus(user, classId, studentId)
       IN  IF status = 200
           THEN /\ reqs' = [reqs EXCEPT ![r] = LoadedRequest("remove-loaded", studentId,
                                                             classId)]
                /\ last' = Awaited(user, studentId, classId)
           ELSE /\ reqs' = reqs
                /\ last' = Response("removeStudentFromClass", user, status, "",
                                    studentId, {classId})
    /\ UNCHANGED <<assignment, media, practice, practices, classes, users, files,
                   uploads, report, now, submitted>>

\* classSchema.methods.removeStudent on the loaded document
RemoveStudent(classData, studentId) ==
    [classData EXCEPT !.students = @ \ {studentId}]

\* classData.removeStudent: the filtered list goes out as $set of the whole
\* array under the loaded __v; the save rejects when the class is gone or
\* its students were written since the load
RemoveSave(r) ==
    /\ reqs[r].pc = "remove-loaded"
    /\ LET classId == BodyOf(r)
       IN  IF FindClassById(classId) = {} \/ reqs[r].stale
           THEN /\ classes' = classes
                /\ reqs' = [reqs EXCEPT ![r] = IdleRequest]
                /\ last' = Response(HandlerOf(r), UserOf(r), 500, "", reqs[r].studentId,
                                    {classId})
           ELSE /\ classes' = [classes EXCEPT ![classId].students =
                                  RemoveStudent(CopyOf(r), reqs[r].studentId).students]
                /\ reqs' = AfterClassSave(r, "remove-saved")
                /\ last' = Awaited(UserOf(r), reqs[r].studentId, classId)
    /\ UNCHANGED <<assignment, media, practice, practices, users, files, uploads,
                   report, now, submitted>>

\* User.findByIdAndUpdate with $pull on studentInfo.classIds, then the
\* answer
RemoveUnlink(r) ==
    /\ reqs[r].pc = "remove-saved"
    /\ users' = [users EXCEPT ![reqs[r].studentId] = @ \ reqs[r].body]
    /\ reqs' = [reqs EXCEPT ![r] = IdleRequest]
    /\ last' = Response(HandlerOf(r), UserOf(r), 200, "", reqs[r].studentId, reqs[r].body)
    /\ UNCHANGED <<assignment, media, practice, practices, classes, files, uploads,
                   report, now, submitted>>

\* controllers: updateClass behind isClassTeacher; the maxStudents of the
\* body, when there is one, is written by Class.findByIdAndUpdate
UpdateClass(user, classId, maxStudents) ==
    /\ classes' = IF IsClassTeacherStatus(user, classId) = 200 /\ maxStudents # {}
                  THEN [classes EXCEPT ![classId].maxStudents =
                           CHOOSE n \in maxStudents : TRUE]
                  ELSE classes
    /\ last' = Response("updateClass", user, IsClassTeacherStatus(user, classId), "", "",
                        {classId})
    /\ UNCHANGED <<assignment, media, practice, practices, users, files, uploads,
                   report, reqs, now, submitted>>

\* deleteClass from isClassTeacher to User.updateMany, which pulls the class
\* from every user that lists it
DeletePull(r, user, classId) ==
    /\ reqs[r].pc = "idle"
    /\ LET status == IsClassTeacherStatus(user, classId)
       IN  IF status = 200
           THEN /\ reqs' = [reqs EXCEPT ![r] = LoadedRequest("delete-pulled", user, classId)]
                /\ users' = [studentId \in DOMAIN users |-> users[studentId] \ {classId}]
                /\ last' = Awaited(user, "", classId)
           ELSE /\ reqs' = reqs
                /\ users' = users
                /\ last' = Response("deleteClass", user, status, "", "", {classId})
    /\ UNCHANGED <<assignment, media, practice, practices, classes, files, uploads,
                   report, now, submitted>>

\* deleteClass from Media.find to the answer: the files and the records of
\* the media of the class, its assignments (the assignment modelled is one
\* of class 1), then the class
DeleteFinish(r) ==
    /\ reqs[r].pc = "delete-pulled"
    /\ LET classId == BodyOf(r)
           kept == SelectSeq(uploads, LAMBDA doc : doc.classId # classId)
       IN  /\ files' = files \ {uploads[i].filePath :
                                   i \in {j \in 1..Len(uploads) :
                                             uploads[j].classId = classId}}
           /\ uploads' = kept
           /\ classes' = [i \in 1..Len(classes) |->
                             IF i = classId THEN DeletedClass ELSE classes[i]]
           /\ last' = Response("deleteClass", reqs[r].studentId, 200, "", "", {classId})
           /\ assignment' = IF classId = 1 THEN NoAssignment ELSE assignment
    /\ reqs' = [reqs EXCEPT ![r] = IdleRequest]
    /\ UNCHANGED <<media, practice, practices, users, report, now, submitted>>

InitEnrol ==
    /\ assignment = NoAssignment
    /\ media = NoMedia
    /\ practice = NoPractice
    /\ practices = NoPractices
    /\ classes = EnrolClasses
    /\ users = EnrolledIn(EnrolClasses)
    /\ files = NoFiles
    /\ uploads = NoUploads
    /\ report = NoReport
    /\ reqs = AllIdle
    /\ now = 0
    /\ submitted = NoneSubmitted
    /\ last = NoResponse

NextEnrol ==
    \/ \E r \in EnrolRequestIds, studentId \in {"s2", "s3"}, classCode \in {"A", "B"} :
          JoinLoad(r, studentId, classCode)
    \/ \E r \in EnrolRequestIds, user \in Teachers, studentId \in {"s1", "s3"} :
          AddLoad(r, user, 1, studentId)
    \/ \E r \in EnrolRequestIds : EnrolSave(r)
    \/ \E r \in EnrolRequestIds : EnrolLink(r)
    \/ \E r \in EnrolRequestIds, studentId \in {"s1", "s2"} : RemoveLoad(r, "t1", 1, studentId)
    \/ \E r \in EnrolRequestIds : RemoveSave(r)
    \/ \E r \in EnrolRequestIds : RemoveUnlink(r)
    \/ \E maxStudents \in MaxStudentsInputs : UpdateClass("t1", 1, maxStudents)
    \/ \E r \in EnrolRequestIds, user \in Teachers : DeletePull(r, user, 1)
    \/ \E r \in EnrolRequestIds : DeleteFinish(r)

SpecEnrol == InitEnrol /\ [][NextEnrol]_vars

\* C25: no class ever has more students than its maxStudents, whatever
\* enrolments interleave and whatever updateClass writes.
C25_NeverMoreThanMaxStudents ==
    \A classId \in 1..Len(classes) :
        Cardinality(classes[classId].students) <= classes[classId].maxStudents

\* C26: when no enrolment, removal or deletion is in flight, a student is
\* in the students of a class exactly when the student lists the class in
\* studentInfo.classIds, and nobody lists a class that was deleted.
C26_StudentsMatchClassIds ==
    (\A r \in RequestIds : reqs[r].pc = "idle") =>
        \A studentId \in DOMAIN users, classId \in 1..Len(classes) :
            /\ studentId \in classes[classId].students <=> classId \in users[studentId]
            /\ classes[classId] = DeletedClass => classId \notin users[studentId]

=============================================================================
